---- MODULE Spec2Model ----
(***************************************************************************)
(* A model of chisel, a task manager kept in SQLite.                       *)
(*                                                                         *)
(*   storage.py    the task / dependency / hook tables and the ready and   *)
(*                 blocked queries                                         *)
(*   decompose.py  update_parent_status, the status rollup                 *)
(*   hooks.py      run_hooks / run_hook, the hook pipeline                 *)
(*   cli.py        the commands (update, close, reopen, dep add, ...)      *)
(*                                                                         *)
(* Task ids are opaque strings in the program (a prefix and six hex digits *)
(* of a hash); here they are the numbers 1..n and NULL is 0.  A timestamp  *)
(* is a number of clock ticks; SecsPerDay ticks make one calendar day.     *)
(* The local time zone is taken to be UTC, so that datetime.now() and      *)
(* SQLite's datetime('now') read the same clock.                           *)
(***************************************************************************)
EXTENDS Integers, Sequences, FiniteSets, Bags, TLC

VARIABLES tasks,      \* the tasks table: id -> row, for the ids that exist
          deps,       \* the dependencies table: a bag of (task, depends_on, type)
          hooks,      \* the hooks table: rows in rowid order
          nextHookId, \* the AUTOINCREMENT counter of the hooks table
          now,        \* the wall clock
          result,     \* what the last operation returned / printed
          spawned,    \* the commands the last operation spawned, in order: the
                      \* hook of each and what the command did
          closing     \* the close commands that run as processes of their own:
                      \* task id -> the position and the locals of its close

vars == <<tasks, deps, hooks, nextHookId, now, result, spawned, closing>>

----------------------------------------------------------------------------
(* Bounds of the model *)

NumTasks == 2        \* ids available to the resolver and command models
NumTreeTasks == 3    \* ids available to the rollup model
MaxDeps == 2         \* rows in the dependencies table
MaxHooks == 2        \* hooks ever added
MaxTime == 2         \* last clock tick
SecsPerDay == 2      \* clock ticks per calendar day
MaxDescLen == 1      \* "Closed: ..." notes appended to one description
MaxCloseHooks == 2   \* pre-close hooks configured in the close model
MaxTitles == 2       \* titles, and points, of one decomposition
MaxClosing == 2      \* close commands that run at the same time

NULL == 0      \* None as a task id
NoTime == -1   \* None as a timestamp
NoPoints == -1 \* None as story points
NoScore == <<>> \* None as a quality score

\* an optional argument of a call: None, or a value
None == <<>>
Some(v) == <<v>>

----------------------------------------------------------------------------
(* models.py *)

TaskStatus == {"open", "in_progress", "blocked", "review", "done", "cancelled"}

DependencyType == {"blocks", "parent", "related", "discovered"}

DefaultPriority == 2

Finished == {"done", "cancelled"}

----------------------------------------------------------------------------
(* Timestamps as the strings the program compares *)

SepT == 84       \* ord("T"), the separator datetime.isoformat() writes
SepSpace == 32   \* ord(" "), the separator SQLite's datetime() writes

\* datetime.isoformat(): "YYYY-MM-DDTHH:MM:SS.ffffff"
isoformat(t) == <<t \div SecsPerDay, SepT, t % SecsPerDay>>

\* SQLite datetime('now'): "YYYY-MM-DD HH:MM:SS"
sqlite_datetime_now(t) == <<t \div SecsPerDay, SepSpace, t % SecsPerDay>>

\* SQLite's comparison of two TEXT values: bytewise, left to right
TextLE(a, b) ==
    \/ a[1] < b[1]
    \/ a[1] = b[1] /\ a[2] < b[2]
    \/ a[1] = b[1] /\ a[2] = b[2] /\ a[3] <= b[3]

----------------------------------------------------------------------------
(* storage.py: the tasks table *)

Exists(tsk, id) == id \in DOMAIN tsk

\* titles are numbers here; the title of the tasks that are not made by a
\* decomposition
DefaultTitle == 0

\* the row create_task inserts
NewTask(parent_id, priority, defer_until, t) ==
    [status |-> "open", parent_id |-> parent_id, priority |-> priority,
     title |-> DefaultTitle, task_type |-> "task", description |-> <<>>,
     story_points |-> NoPoints, quality_score |-> NoScore, labels |-> <<>>,
     created_at |-> t, updated_at |-> t, defer_until |-> defer_until]

\* generate_task_id: an id no existing row has
FreeIds(tsk, pool) == pool \ DOMAIN tsk

generate_task_id(tsk, pool) ==
    CHOOSE i \in FreeIds(tsk, pool) : \A j \in FreeIds(tsk, pool) : i <= j

InsertTask(tsk, id, row) ==
    [i \in DOMAIN tsk \cup {id} |-> IF i = id THEN row ELSE tsk[i]]

\* update_task with UPDATE tasks SET ... and no WHERE id = ?
update_task_AllRows(tsk, id, patch) ==
    IF ~ Exists(tsk, id) \/ DOMAIN patch = {} THEN tsk
    ELSE [i \in DOMAIN tsk |->
            [f \in DOMAIN tsk[i] |-> IF f \in DOMAIN patch THEN patch[f]
                                     ELSE IF f = "updated_at" THEN now
                                     ELSE tsk[i][f]]]

\* update_task: patch semantics; patch maps the supplied fields to values.
\* With no field supplied nothing is written; otherwise updated_at is set to
\* the clock.  UPDATE ... WHERE id = ? touches no row when the id does not exist.
update_task(tsk, id, patch) ==
    IF ~ Exists(tsk, id) \/ DOMAIN patch = {} THEN tsk
    ELSE [tsk EXCEPT ![id] =
            [f \in DOMAIN @ |-> IF f \in DOMAIN patch THEN patch[f]
                                ELSE IF f = "updated_at" THEN now
                                ELSE @[f]]]

\* get_children: list_tasks(parent_id = p)
get_children(tsk, p) == {c \in DOMAIN tsk : tsk[c].parent_id = p}

----------------------------------------------------------------------------
(* storage.py: the resolver queries *)

Edge(t, b, ty) == [task_id |-> t, depends_on_id |-> b, dep_type |-> ty]

\* the sub-select with blocker.status != 'cancelled' in place of NOT IN (...)
HasUnfinishedBlocker_DoneStillBlocks(tsk, dps, t) ==
    \E d \in dps :
        /\ d.task_id = t
        /\ d.dep_type = "blocks"
        /\ Exists(tsk, d.depends_on_id)
        /\ tsk[d.depends_on_id].status # "cancelled"

\* the sub-select with blocker.status = 'open' in place of NOT IN (...)
HasUnfinishedBlocker_OpenOnly(tsk, dps, t) ==
    \E d \in dps :
        /\ d.task_id = t
        /\ d.dep_type = "blocks"
        /\ Exists(tsk, d.depends_on_id)
        /\ tsk[d.depends_on_id].status = "open"

\* the sub-select and the JOIN without d.dep_type = 'blocks'
HasUnfinishedBlocker_AnyType(tsk, dps, t) ==
    \E d \in dps :
        /\ d.task_id = t
        /\ Exists(tsk, d.depends_on_id)
        /\ tsk[d.depends_on_id].status \notin Finished

\* the NOT EXISTS sub-select / the JOIN of get_blocked_tasks:
\* a blocks-edge from t joined to an existing row that is not finished
HasUnfinishedBlocker(tsk, dps, t) ==
    \E d \in dps :
        /\ d.task_id = t
        /\ d.dep_type = "blocks"
        /\ Exists(tsk, d.depends_on_id)
        /\ tsk[d.depends_on_id].status \notin Finished

\* t.defer_until IS NULL OR t.defer_until <= datetime('now')
DeferTest(row, t) ==
    \/ row.defer_until = NoTime
    \/ TextLE(isoformat(row.defer_until), sqlite_datetime_now(t))

\* get_ready_tasks without its NOT EXISTS clause
ReadyRows_IgnoringBlockers(tsk, dps, t) ==
    {i \in DOMAIN tsk : tsk[i].status = "open" /\ DeferTest(tsk[i], t)}

\* the WHERE clause of get_ready_tasks
ReadyRows(tsk, dps, t) ==
    {i \in DOMAIN tsk :
        /\ tsk[i].status = "open"
        /\ DeferTest(tsk[i], t)
        /\ ~ HasUnfinishedBlocker(tsk, dps, i)}

\* get_blocked_tasks without "t.status NOT IN ('done', 'cancelled')"
BlockedRows_AnyStatus(tsk, dps) ==
    {i \in DOMAIN tsk : HasUnfinishedBlocker(tsk, dps, i)}

\* the WHERE clause of get_blocked_tasks (DISTINCT: a set of rows)
BlockedRows(tsk, dps) ==
    {i \in DOMAIN tsk :
        /\ HasUnfinishedBlocker(tsk, dps, i)
        /\ tsk[i].status \notin Finished}

\* ORDER BY priority ASC, created_at ASC (rows that tie: by id)
RowBefore(tsk, a, b) ==
    \/ tsk[a].priority < tsk[b].priority
    \/ /\ tsk[a].priority = tsk[b].priority
       /\ \/ tsk[a].created_at < tsk[b].created_at
          \/ tsk[a].created_at = tsk[b].created_at /\ a <= b

RECURSIVE OrderRows(_, _)
OrderRows(tsk, S) ==
    IF S = {} THEN <<>>
    ELSE LET first == CHOOSE a \in S : \A b \in S : RowBefore(tsk, a, b)
         IN  <<first>> \o OrderRows(tsk, S \ {first})

\* LIMIT ?: a negative limit is no limit in SQLite
Limit(s, n) == IF n < 0 THEN s ELSE SubSeq(s, 1, IF n < Len(s) THEN n ELSE Len(s))

get_ready_tasks(tsk, dps, t, limit) == Limit(OrderRows(tsk, ReadyRows(tsk, dps, t)), limit)

get_blocked_tasks(tsk, dps) == OrderRows(tsk, BlockedRows(tsk, dps))

Range(s) == {s[i] : i \in DOMAIN s}

----------------------------------------------------------------------------
(* storage.py: list_tasks.  Text is a sequence of characters; a label is    *)
(* text.                                                                    *)

\* a character outside ASCII, as in "caf" followed by e-acute
EAcute == "e-acute"

\* json.dumps of one character of a string (ensure_ascii)
JsonChar(c) ==
    IF c = EAcute THEN <<"\\", "u", "0", "0", "e", "9">>
    ELSE IF c = "\"" THEN <<"\\", "\"">>
    ELSE IF c = "\\" THEN <<"\\", "\\">>
    ELSE <<c>>

RECURSIVE JsonString(_)
JsonString(txt) ==
    IF txt = <<>> THEN <<>> ELSE JsonChar(Head(txt)) \o JsonString(Tail(txt))

\* json.dumps(labels): ["a", "b"]
RECURSIVE JsonItems(_)
JsonItems(labels) ==
    IF labels = <<>> THEN <<>>
    ELSE <<"\"">> \o JsonString(Head(labels)) \o <<"\"">> \o
         (IF Tail(labels) = <<>> THEN <<>> ELSE <<",", " ">>) \o JsonItems(Tail(labels))

json_dumps(labels) == <<"[">> \o JsonItems(labels) \o <<"]">>

\* SQLite folds the case of ASCII letters in LIKE
Lower(c) == IF c = "A" THEN "a" ELSE IF c = "B" THEN "b" ELSE c

\* text LIKE pattern: % is any run of characters, _ any one character
RECURSIVE Like(_, _)
Like(txt, pattern) ==
    IF pattern = <<>> THEN txt = <<>>
    ELSE IF Head(pattern) = "%"
         THEN Like(txt, Tail(pattern)) \/ (txt # <<>> /\ Like(Tail(txt), pattern))
         ELSE /\ txt # <<>>
              /\ Head(pattern) = "_" \/ Lower(Head(pattern)) = Lower(Head(txt))
              /\ Like(Tail(txt), Tail(pattern))

\* f'%"{label}"%'
LabelPattern(label) == <<"%", "\"">> \o label \o <<"\"", "%">>

\* the WHERE clause of list_tasks: a filter is None or Some(value); "if
\* labels:" skips an empty label list
ListRows(tsk, filters) ==
    {i \in DOMAIN tsk :
        /\ filters.status # None => tsk[i].status = filters.status[1]
        /\ filters.priority # None => tsk[i].priority = filters.priority[1]
        /\ (filters.labels # None /\ filters.labels[1] # <<>>) =>
              \E k \in DOMAIN filters.labels[1] :
                  Like(json_dumps(tsk[i].labels), LabelPattern(filters.labels[1][k]))}

\* list_tasks: limit is None or Some(n)
list_tasks(tsk, filters, limit) ==
    IF limit = None THEN OrderRows(tsk, ListRows(tsk, filters))
    ELSE Limit(OrderRows(tsk, ListRows(tsk, filters)), limit[1])

----------------------------------------------------------------------------
(* decompose.py: get_subtask_progress *)

\* "if child.story_points:": the estimate is neither None nor 0
HasPoints(row) == row.story_points # NoPoints /\ row.story_points # 0

\* the sum of the story points of the tasks in S
RECURSIVE SumPoints(_, _)
SumPoints(tsk, S) ==
    IF S = {} THEN 0
    ELSE LET c == CHOOSE x \in S : TRUE
         IN  tsk[c].story_points + SumPoints(tsk, S \ {c})

\* round(n / d, 0) to the nearest integer, halves to the even one
RoundHalfEven(n, d) ==
    LET q == n \div d
        r == n % d
    IN  IF 2 * r < d THEN q
        ELSE IF 2 * r > d THEN q + 1
        ELSE IF q % 2 = 0 THEN q ELSE q + 1

\* round(done / countable * 100, 1), in tenths of a percent
ProgressTenths(done, countable) ==
    IF countable > 0 THEN RoundHalfEven(1000 * done, countable) ELSE 0

\* the statuses the result of a parent without children names
ChildlessKeys == TaskStatus \ {"review"}

\* completed_points that also counts the cancelled children
CompletedPoints_Finished(tsk, children) ==
    SumPoints(tsk, {c \in children : HasPoints(tsk[c]) /\ tsk[c].status \in Finished})

\* completed_points: the points of the children whose status is done
CompletedPoints(tsk, children) ==
    SumPoints(tsk, {c \in children : HasPoints(tsk[c]) /\ tsk[c].status = "done"})

\* get_subtask_progress(storage, parent_id): the dictionary it returns
get_subtask_progress(tsk, parent_id) ==
    LET children == get_children(tsk, parent_id)
        counts == [st \in TaskStatus |-> Cardinality({c \in children : tsk[c].status = st})]
    IN  IF ~ Exists(tsk, parent_id) THEN [error |-> TRUE]
        ELSE IF children = {}
        THEN [error |-> FALSE, total |-> 0,
              counts |-> [st \in ChildlessKeys |-> 0],
              progress_tenths |-> 0, total_points |-> 0, completed_points |-> 0]
        ELSE [error |-> FALSE, total |-> Cardinality(children),
              counts |-> counts,
              progress_tenths |->
                  ProgressTenths(counts["done"], Cardinality(children) - counts["cancelled"]),
              total_points |-> SumPoints(tsk, {c \in children : HasPoints(tsk[c])}),
              completed_points |-> CompletedPoints(tsk, children)]

----------------------------------------------------------------------------
(* decompose.py: the status rollup *)

\* a rollup that does not count cancelled children as complete
RollupWrite_CancelledPending(tsk, parent_id, children) ==
    IF \A c \in children : tsk[c].status = "done"
    THEN update_task(tsk, parent_id, [status |-> "done"])
    ELSE IF (\E c \in children : tsk[c].status = "in_progress") /\ tsk[parent_id].status = "open"
    THEN update_task(tsk, parent_id, [status |-> "in_progress"])
    ELSE tsk

\* a rollup whose in-progress rule does not look at the parent's status
RollupWrite_AnyParent(tsk, parent_id, children) ==
    IF \A c \in children : tsk[c].status \in {"done", "cancelled"}
    THEN update_task(tsk, parent_id, [status |-> "done"])
    ELSE IF \E c \in children : tsk[c].status = "in_progress"
    THEN update_task(tsk, parent_id, [status |-> "in_progress"])
    ELSE tsk

\* update_parent_status, "Update parent status": the write to one parent
RollupWrite(tsk, parent_id, children) ==
    LET all_done == \A c \in children : tsk[c].status \in {"done", "cancelled"}
        any_in_progress == \E c \in children : tsk[c].status = "in_progress"
    IN  IF all_done
        THEN update_task(tsk, parent_id, [status |-> "done"])
        ELSE IF any_in_progress /\ tsk[parent_id].status = "open"
        THEN update_task(tsk, parent_id, [status |-> "in_progress"])
        ELSE tsk

\* a rollup that stops after the first parent
RollupStep_OneLevel(tsk, task_id) ==
    IF ~ Exists(tsk, task_id) THEN tsk
    ELSE IF tsk[task_id].parent_id = NULL THEN tsk
    ELSE IF ~ Exists(tsk, tsk[task_id].parent_id) THEN tsk
    ELSE RollupWrite(tsk, tsk[task_id].parent_id, get_children(tsk, tsk[task_id].parent_id))

\* a rollup that goes on to the next level only when it has changed this one
RECURSIVE RollupFrom_StopWhenUnchanged(_, _, _)
RollupFrom_StopWhenUnchanged(tsk, task_id, pending) ==
    LET stop(returns) ==
            [tasks |-> tsk, returns |-> returns, calls |-> Cardinality(pending) + 1]
    IN  IF ~ Exists(tsk, task_id) THEN stop(TRUE)
        ELSE IF tsk[task_id].parent_id = NULL THEN stop(TRUE)
        ELSE LET parent_id == tsk[task_id].parent_id
                 children == get_children(tsk, parent_id)
                 written == RollupWrite(tsk, parent_id, children)
             IN  IF ~ Exists(tsk, parent_id) THEN stop(TRUE)
                 ELSE IF written = tsk
                 THEN [tasks |-> tsk, returns |-> TRUE, calls |-> Cardinality(pending) + 2]
                 ELSE RollupFrom_StopWhenUnchanged(written, parent_id,
                                                   pending \cup {<<tsk, task_id>>})

\* update_parent_status(storage, task_id) below the calls in pending, each a
\* pair of the table and the task it was called with: the table it leaves,
\* whether it returns, and the number of calls made. A call equal to a pending
\* one repeats it without end, until Python raises RecursionError; every
\* write before that is committed
RECURSIVE RollupFrom(_, _, _)
RollupFrom(tsk, task_id, pending) ==
    LET stop(returns) ==
            [tasks |-> tsk, returns |-> returns, calls |-> Cardinality(pending) + 1]
    IN  IF <<tsk, task_id>> \in pending THEN stop(FALSE)
        ELSE IF ~ Exists(tsk, task_id) THEN stop(TRUE)
        ELSE IF tsk[task_id].parent_id = NULL THEN stop(TRUE)
        ELSE LET parent_id == tsk[task_id].parent_id
                 children == get_children(tsk, parent_id)
             IN  IF children = {} THEN stop(TRUE)
                 ELSE IF ~ Exists(tsk, parent_id) THEN stop(TRUE)
                 ELSE RollupFrom(RollupWrite(tsk, parent_id, children), parent_id,
                                 pending \cup {<<tsk, task_id>>})

\* update_parent_status: the tasks table it leaves
update_parent_status(tsk, task_id) == RollupFrom(tsk, task_id, {}).tasks

\* update_parent_status returns to its caller
RollupReturns(tsk, task_id) == RollupFrom(tsk, task_id, {}).returns

\* the calls of update_parent_status one call from outside makes, itself
\* included, up to the first that repeats
RollupCalls(tsk, task_id) == RollupFrom(tsk, task_id, {}).calls

----------------------------------------------------------------------------
(* storage.py: the hooks table;  hooks.py: the pipeline *)

Events == {"pre-close", "post-create"}

\* what a spawned command can do: exit 0, exit 0 after writing bytes that do
\* not decode as text (subprocess.run(text=True) raises UnicodeDecodeError),
\* exit non-zero, run into the timeout, or fail to be spawned at all
Outcomes == {"exit0", "exit0_undecodable", "exit1", "timeout", "error"}

\* the commands that exited with code 0
ExitedZero == {"exit0", "exit0_undecodable"}

\* the row add_hook inserts
NewHook(id, event) == [id |-> id, event |-> event, enabled |-> TRUE]

HookIds(hks) == {hks[i].id : i \in DOMAIN hks}

\* get_hooks(event): "if event:" selects the enabled rows of the event,
\* otherwise every row
get_hooks(hks, event) ==
    IF event # ""
    THEN SelectSeq(hks, LAMBDA h : h.event = event /\ h.enabled)
    ELSE hks

\* run_hook: the result of one command, whatever it does
run_hook(hook, outcome) ==
    IF outcome \in {"exit0", "exit1"}
    THEN [hook_id |-> hook.id, event |-> hook.event,
          success |-> (outcome = "exit0"),
          return_code |-> IF outcome = "exit0" THEN 0 ELSE 1,
          stderr |-> "captured"]
    ELSE IF outcome = "timeout"
    THEN [hook_id |-> hook.id, event |-> hook.event,
          success |-> FALSE, return_code |-> -1, stderr |-> "timed out"]
    ELSE [hook_id |-> hook.id, event |-> hook.event,
          success |-> FALSE, return_code |-> -1, stderr |-> "exception"]

\* subprocess.run: the command of the hook is started and does outs[hook.id]
Spawn(hook, outs) == [hook_id |-> hook.id, did |-> outs[hook.id]]

\* a loop over the hooks without "if not hook.enabled: continue"
RECURSIVE HookLoop_RunsDisabled(_, _, _)
HookLoop_RunsDisabled(hl, outs, acc) ==
    IF hl = <<>> THEN acc
    ELSE HookLoop_RunsDisabled(Tail(hl), outs,
            [results |-> Append(acc.results, run_hook(Head(hl), outs[Head(hl).id])),
             spawned |-> Append(acc.spawned, Spawn(Head(hl), outs))])

\* a loop over the hooks that gives up at the first failed result
RECURSIVE HookLoop_StopAtFailure(_, _, _)
HookLoop_StopAtFailure(hl, outs, acc) ==
    IF hl = <<>> THEN acc
    ELSE IF ~ Head(hl).enabled THEN HookLoop_StopAtFailure(Tail(hl), outs, acc)
    ELSE LET r == run_hook(Head(hl), outs[Head(hl).id])
             acc2 == [results |-> Append(acc.results, r),
                      spawned |-> Append(acc.spawned, Spawn(Head(hl), outs))]
         IN  IF r.success THEN HookLoop_StopAtFailure(Tail(hl), outs, acc2) ELSE acc2

\* run_hooks, "for hook in hooks": the results collected and the commands spawned
RECURSIVE HookLoop(_, _, _)
HookLoop(hl, outs, acc) ==
    IF hl = <<>> THEN acc
    ELSE IF ~ Head(hl).enabled THEN HookLoop(Tail(hl), outs, acc)
    ELSE HookLoop(Tail(hl), outs,
                  [results |-> Append(acc.results, run_hook(Head(hl), outs[Head(hl).id])),
                   spawned |-> Append(acc.spawned, Spawn(Head(hl), outs))])

\* run_hooks(storage, event): outs[h] is what the command of hook h does if spawned
run_hooks(hks, event, outs) ==
    LET hl == get_hooks(hks, event)
    IN  IF hl = <<>> THEN [results |-> <<>>, spawned |-> <<>>]
        ELSE HookLoop(hl, outs, [results |-> <<>>, spawned |-> <<>>])

----------------------------------------------------------------------------
(* decompose.py: decompose_task *)

\* an optional list: None, or a list
NoList == [given |-> FALSE, list |-> <<>>]

GivenList(l) == [given |-> TRUE, list |-> l]

\* story_points[i] if story_points and i < len(story_points) else None
\* (i counts from 1 here); None and the empty list are both false
PointAt(story_points, i) ==
    IF story_points.given /\ story_points.list # <<>> /\ i <= Len(story_points.list)
    THEN story_points.list[i]
    ELSE NoPoints

\* a child row with the default priority of create_task
SubtaskRow_DefaultPriority(parent, parent_id, title, points, t) ==
    [NewTask(parent_id, DefaultPriority, NoTime, t)
        EXCEPT !.title = title, !.story_points = points]

\* create_task(title, task_type = "task", priority = parent.priority,
\*             parent_id, story_points = points)
SubtaskRow(parent, parent_id, title, points, t) ==
    [NewTask(parent_id, parent.priority, NoTime, t)
        EXCEPT !.title = title, !.story_points = points]

\* "for i, title in enumerate(subtask_titles)": the table and the ids created
RECURSIVE CreateSubtasks(_, _, _, _, _, _, _)
CreateSubtasks(tsk, pool, parent_id, titles, story_points, i, subtasks) ==
    IF i > Len(titles) THEN [tasks |-> tsk, subtasks |-> subtasks]
    ELSE LET id == generate_task_id(tsk, pool)
             row == SubtaskRow(tsk[parent_id], parent_id, titles[i],
                               PointAt(story_points, i), now)
         IN  CreateSubtasks(InsertTask(tsk, id, row), pool, parent_id, titles,
                            story_points, i + 1, Append(subtasks, id))

\* decompose_task for a parent that exists: the children, then the parent
\* becomes an epic unless it is one
decompose_task(tsk, pool, parent_id, titles, story_points) ==
    LET made == CreateSubtasks(tsk, pool, parent_id, titles, story_points, 1, <<>>)
    IN  [tasks |-> IF tsk[parent_id].task_type # "epic"
                   THEN update_task(made.tasks, parent_id, [task_type |-> "epic"])
                   ELSE made.tasks,
         subtasks |-> made.subtasks]

\* the --points option: int(p.strip()) of one item; ValueError is NotAnInt
NotAnInt == -2

ParseInt(tok) ==
    IF tok = "3" THEN 3 ELSE IF tok = "5" THEN 5 ELSE NotAnInt

\* [int(p.strip()) for p in points.split(",")]
ParsePoints(toks) == [i \in DOMAIN toks |-> ParseInt(toks[i])]

----------------------------------------------------------------------------
(* What a command reports *)

Report(op, id, ok, hook_results) ==
    [op |-> op, task_id |-> id, ok |-> ok, hook_results |-> hook_results]

\* what run_hooks returns to a direct caller
HookReport(event, hook_results) ==
    [op |-> "run_hooks", task_id |-> NULL, ok |-> TRUE,
     hook_results |-> hook_results, event |-> event]

\* output_result({"error": ...}): the report of a command that failed, with
\* the kind of its message
Failure(report, error) ==
    [k \in DOMAIN report \cup {"error"} |-> IF k = "error" THEN error ELSE report[k]]

\* "Task {task_id} not found"
NotFound == "not found"

\* a direct call of the Storage API prints nothing
StorageCall == Report("storage", NULL, TRUE, <<>>)

\* what a call on the dependencies table was asked for, and whether it
\* returned (ok) or raised
DepReport(op, t, b, ty, ok) ==
    [op |-> op, task_id |-> t, ok |-> ok, hook_results |-> <<>>,
     depends_on_id |-> b, dep_type |-> ty]

\* the rows of the dependencies table without their autoincrement ids
DepRows(dps) == BagToSet(dps)

\* DELETE FROM dependencies WHERE ...: the table without the rows in gone
DeleteRows(dps, gone) == [d \in DOMAIN dps \ gone |-> dps[d]]

\* the dependencies table without its UNIQUE constraint
UniqueViolation_Never(dps, row) == FALSE

\* UNIQUE(task_id, depends_on_id, dep_type): the INSERT raises IntegrityError
UniqueViolation(dps, row) == BagIn(row, dps)

\* INSERT INTO dependencies: the table after the statement
InsertRow(dps, row) ==
    IF UniqueViolation(dps, row) THEN dps ELSE dps (+) SetToBag({row})

\* what a decomposition was asked for and what it returns: the ids of the
\* subtasks it created
DecomposeReport(op, id, ok, titles, points, subtasks) ==
    [op |-> op, task_id |-> id, ok |-> ok, hook_results |-> <<>>,
     titles |-> titles, points |-> points, subtasks |-> subtasks]

\* "if reason:" is false for no reason and for the empty one
NoReason == ""

\* any(not r["success"] for r in hook_results), looking at the last result only
HooksFailed_LastOnly(hook_results) ==
    hook_results # <<>> /\ ~ hook_results[Len(hook_results)].success

\* close: any(not r["success"] for r in hook_results)
HooksFailed(hook_results) ==
    \E i \in DOMAIN hook_results : ~ hook_results[i].success

\* all(r["success"] for r in results)
AllPassed(hook_results) ==
    \A i \in DOMAIN hook_results : hook_results[i].success

RECURSIVE Gcd(_, _)
Gcd(a, b) == IF b = 0 THEN a ELSE Gcd(b, a % b)

\* passed_count / len(results), for a non-empty list: the quotient as a
\* fraction in lowest terms
QualityScore(hook_results) ==
    LET n == Len(hook_results)
        passed_count == Cardinality({i \in DOMAIN hook_results : hook_results[i].success})
    IN  <<passed_count \div Gcd(passed_count, n), n \div Gcd(passed_count, n)>>

\* what validate_task returns
ValidationReport(id, valid, quality_score, hook_results) ==
    [op |-> "validate_task", task_id |-> id, ok |-> valid,
     hook_results |-> hook_results, quality_score |-> quality_score]

\* close without its "if reason:" test
ClosedDescription_Always(description, reason) == Append(description, reason)

\* close: the description that goes into the update
ClosedDescription(description, reason) ==
    IF reason # NoReason THEN Append(description, reason) ELSE description

----------------------------------------------------------------------------
(* storage.py: operations of the store *)

\* Storage.create_task(parent_id, priority, defer_until)
create_task(pool, parent_id, priority, defer_until) ==
    /\ FreeIds(tasks, pool) # {}
    /\ LET id == generate_task_id(tasks, pool)
       IN  tasks' = InsertTask(tasks, id, NewTask(parent_id, priority, defer_until, now))
    /\ result' = StorageCall
    /\ spawned' = <<>>
    /\ UNCHANGED <<deps, hooks, nextHookId, now, closing>>

\* Storage.update_task(task_id, status = s)
update_task_status(id, s) ==
    /\ tasks' = update_task(tasks, id, [status |-> s])
    /\ result' = StorageCall
    /\ spawned' = <<>>
    /\ UNCHANGED <<deps, hooks, nextHookId, now, closing>>

\* "if x is not None": the fields the UPDATE statement sets
PatchOf(kwargs) ==
    [f \in {g \in DOMAIN kwargs : kwargs[g] # None} |-> kwargs[f][1]]

\* what update_task was asked for and what it returns: the task, or None
UpdateReport(id, kwargs, found) ==
    [op |-> "update_task", task_id |-> id, ok |-> found, hook_results |-> <<>>,
     kwargs |-> kwargs]

\* Storage.update_task(task_id, title = ..., priority = ..., status = ...),
\* with what it returns to its caller
call_update_task(id, kwargs) ==
    /\ tasks' = update_task(tasks, id, PatchOf(kwargs))
    /\ result' = UpdateReport(id, kwargs, Exists(tasks, id))
    /\ spawned' = <<>>
    /\ UNCHANGED <<deps, hooks, nextHookId, now, closing>>

\* what get_subtask_progress was asked for and the dictionary it returns
ProgressReport(parent_id, progress) ==
    [op |-> "get_subtask_progress", task_id |-> parent_id, ok |-> ~ progress.error,
     hook_results |-> <<>>, progress |-> progress]

\* a direct call of get_subtask_progress(storage, parent_id)
call_get_subtask_progress(parent_id) ==
    /\ result' = ProgressReport(parent_id, get_subtask_progress(tasks, parent_id))
    /\ spawned' = <<>>
    /\ UNCHANGED <<tasks, deps, hooks, nextHookId, now, closing>>

\* what a query was asked for and the ids of the rows it returns, in order
ListReport(op, filters, limit, rows) ==
    [op |-> op, task_id |-> NULL, ok |-> TRUE, hook_results |-> <<>>,
     filters |-> filters, limit |-> limit, rows |-> rows]

\* Storage.list_tasks(status = ..., priority = ..., labels = ..., limit = ...)
call_list_tasks(filters, limit) ==
    /\ result' = ListReport("list_tasks", filters, limit, list_tasks(tasks, filters, limit))
    /\ spawned' = <<>>
    /\ UNCHANGED <<tasks, deps, hooks, nextHookId, now, closing>>

\* Storage.get_ready_tasks(limit = n)
call_get_ready_tasks(n) ==
    /\ result' = ListReport("get_ready_tasks", None, Some(n),
                            get_ready_tasks(tasks, DepRows(deps), now, n))
    /\ spawned' = <<>>
    /\ UNCHANGED <<tasks, deps, hooks, nextHookId, now, closing>>

\* what delete_task was asked for and what it returns: rowcount > 0
DeleteReport(id, found) == Report("delete_task", id, found, <<>>)

\* Storage.delete_task: the dependencies DELETE runs whether or not the task
\* exists
delete_task(id) ==
    /\ deps' = DeleteRows(deps, {d \in DepRows(deps) : d.task_id = id \/ d.depends_on_id = id})
    /\ tasks' = [i \in DOMAIN tasks \ {id} |-> tasks[i]]
    /\ result' = StorageCall
    /\ spawned' = <<>>
    /\ UNCHANGED <<hooks, nextHookId, now, closing>>

\* Storage.delete_task, with what it returns to its caller
call_delete_task(id) ==
    /\ deps' = DeleteRows(deps, {d \in DepRows(deps) : d.task_id = id \/ d.depends_on_id = id})
    /\ tasks' = [i \in DOMAIN tasks \ {id} |-> tasks[i]]
    /\ result' = DeleteReport(id, Exists(tasks, id))
    /\ spawned' = <<>>
    /\ UNCHANGED <<hooks, nextHookId, now, closing>>

\* Storage.add_dependency: the INSERT fails on UNIQUE(task_id, depends_on_id, dep_type)
add_dependency(t, b, ty) ==
    /\ BagCardinality(deps) < MaxDeps \/ BagIn(Edge(t, b, ty), deps)
    /\ deps' = InsertRow(deps, Edge(t, b, ty))
    /\ result' = StorageCall
    /\ spawned' = <<>>
    /\ UNCHANGED <<tasks, hooks, nextHookId, now, closing>>

\* Storage.add_dependency, with what it returns to its caller: the new
\* Dependency, or the IntegrityError of the INSERT
call_add_dependency(t, b, ty) ==
    /\ BagCardinality(deps) < MaxDeps \/ BagIn(Edge(t, b, ty), deps)
    /\ deps' = InsertRow(deps, Edge(t, b, ty))
    /\ result' = DepReport("add_dependency", t, b, ty,
                            ~ UniqueViolation(deps, Edge(t, b, ty)))
    /\ spawned' = <<>>
    /\ UNCHANGED <<tasks, hooks, nextHookId, now, closing>>

\* Storage.remove_dependency: DELETE ... WHERE task_id = ? AND depends_on_id = ?
remove_dependency(t, b) ==
    /\ deps' = DeleteRows(deps, {d \in DepRows(deps) : d.task_id = t /\ d.depends_on_id = b})
    /\ result' = StorageCall
    /\ spawned' = <<>>
    /\ UNCHANGED <<tasks, hooks, nextHookId, now, closing>>

\* the wall clock advances
Tick ==
    /\ now < MaxTime
    /\ now' = now + 1
    /\ UNCHANGED <<tasks, deps, hooks, nextHookId, result, spawned, closing>>

\* Storage.add_hook
add_hook(event) ==
    /\ nextHookId <= MaxHooks
    /\ hooks' = Append(hooks, NewHook(nextHookId, event))
    /\ nextHookId' = nextHookId + 1
    /\ result' = StorageCall
    /\ spawned' = <<>>
    /\ UNCHANGED <<tasks, deps, now, closing>>

\* Storage.remove_hook
remove_hook(hook_id) ==
    /\ hooks' = SelectSeq(hooks, LAMBDA h : h.id # hook_id)
    /\ result' = StorageCall
    /\ spawned' = <<>>
    /\ UNCHANGED <<tasks, deps, nextHookId, now, closing>>

\* Storage.set_hook_enabled
set_hook_enabled(hook_id, enabled) ==
    /\ hooks' = [i \in DOMAIN hooks |->
                    IF hooks[i].id = hook_id
                    THEN [hooks[i] EXCEPT !.enabled = enabled] ELSE hooks[i]]
    /\ result' = StorageCall
    /\ spawned' = <<>>
    /\ UNCHANGED <<tasks, deps, nextHookId, now, closing>>

\* a direct call of run_hooks(storage, event)
call_run_hooks(event, outs) ==
    /\ LET run == run_hooks(hooks, event, outs)
       IN  /\ result' = HookReport(event, run.results)
           /\ spawned' = run.spawned
    /\ UNCHANGED <<tasks, deps, hooks, nextHookId, now, closing>>

\* hooks.validate_task(storage, task_id)
validate_task(id, outs) ==
    /\ IF ~ Exists(tasks, id)
       THEN /\ result' = Failure(ValidationReport(id, FALSE, NoScore, <<>>), NotFound)
            /\ spawned' = <<>>
            /\ UNCHANGED tasks
       ELSE LET run == run_hooks(hooks, "pre-close", outs)
            IN  /\ spawned' = run.spawned
                /\ IF run.results # <<>>
                   THEN /\ tasks' = update_task(tasks, id,
                                        [quality_score |-> QualityScore(run.results)])
                        /\ result' = ValidationReport(id, AllPassed(run.results),
                                                      QualityScore(run.results), run.results)
                   ELSE /\ UNCHANGED tasks
                        /\ result' = ValidationReport(id, TRUE, NoScore, <<>>)
    /\ UNCHANGED <<deps, hooks, nextHookId, now, closing>>

\* what update_parent_status was asked for, whether it returned, and the
\* calls it made
RollupReport(id, returned, calls) ==
    [op |-> "update_parent_status", task_id |-> id, ok |-> returned,
     hook_results |-> <<>>, calls |-> calls]

\* a direct call of update_parent_status(storage, task_id)
rollup(id) ==
    /\ tasks' = update_parent_status(tasks, id)
    /\ result' = IF RollupReturns(tasks, id)
                 THEN RollupReport(id, TRUE, RollupCalls(tasks, id))
                 ELSE Failure(RollupReport(id, FALSE, RollupCalls(tasks, id)),
                              "RecursionError")
    /\ spawned' = <<>>
    /\ UNCHANGED <<deps, hooks, nextHookId, now, closing>>

----------------------------------------------------------------------------
(* cli.py: the commands *)

\* chisel create [--parent p]
cli_create(pool, parent_id) ==
    /\ FreeIds(tasks, pool) # {}
    /\ LET id == generate_task_id(tasks, pool)
       IN  /\ tasks' = InsertTask(tasks, id, NewTask(parent_id, DefaultPriority, NoTime, now))
           /\ result' = Report("create", id, TRUE, <<>>)
    /\ spawned' = <<>>
    /\ UNCHANGED <<deps, hooks, nextHookId, now, closing>>

\* chisel update id --status s
cli_update(id, s) ==
    /\ IF ~ Exists(tasks, id)
       THEN /\ result' = Failure(Report("update", id, FALSE, <<>>), NotFound)
            /\ UNCHANGED tasks
       ELSE /\ tasks' = update_task(tasks, id, [status |-> s])
            /\ result' = Report("update", id, TRUE, <<>>)
    /\ spawned' = <<>>
    /\ UNCHANGED <<deps, hooks, nextHookId, now, closing>>

\* chisel close id [--reason r]
cli_close(id, reason, outs) ==
    /\ reason # NoReason /\ Exists(tasks, id) => Len(tasks[id].description) < MaxDescLen
    /\ IF ~ Exists(tasks, id)
       THEN /\ result' = Failure(Report("close", id, FALSE, <<>>), NotFound)
            /\ spawned' = <<>>
            /\ UNCHANGED tasks
       ELSE LET run == run_hooks(hooks, "pre-close", outs)
            IN  /\ spawned' = run.spawned
                /\ IF HooksFailed(run.results)
                   THEN /\ result' = Failure(Report("close", id, FALSE, run.results),
                                              "Pre-close hooks failed")
                        /\ UNCHANGED tasks
                   ELSE LET closed == update_task(tasks, id,
                                           [status |-> "done",
                                            description |-> ClosedDescription(tasks[id].description, reason)])
                        IN  /\ tasks' = update_parent_status(closed, id)
                            /\ result' = IF RollupReturns(closed, id)
                                         THEN Report("close", id, TRUE, run.results)
                                         ELSE Failure(Report("close", id, FALSE, run.results),
                                                      "RecursionError")
    /\ UNCHANGED <<deps, hooks, nextHookId, now, closing>>

\* what close was asked for and what it printed
CloseReport(id, reason, ok, hook_results) ==
    [op |-> "close", task_id |-> id, ok |-> ok, hook_results |-> hook_results,
     reason |-> reason]

\* chisel close id [--reason r], with the reason it was given
call_close(id, reason, outs) ==
    /\ reason # NoReason /\ Exists(tasks, id) => Len(tasks[id].description) < MaxDescLen
    /\ IF ~ Exists(tasks, id)
       THEN /\ result' = Failure(CloseReport(id, reason, FALSE, <<>>), NotFound)
            /\ spawned' = <<>>
            /\ UNCHANGED tasks
       ELSE LET run == run_hooks(hooks, "pre-close", outs)
            IN  /\ spawned' = run.spawned
                /\ IF HooksFailed(run.results)
                   THEN /\ result' = Failure(CloseReport(id, reason, FALSE, run.results),
                                              "Pre-close hooks failed")
                        /\ UNCHANGED tasks
                   ELSE LET closed == update_task(tasks, id,
                                           [status |-> "done",
                                            description |-> ClosedDescription(tasks[id].description, reason)])
                        IN  /\ tasks' = update_parent_status(closed, id)
                            /\ result' = IF RollupReturns(closed, id)
                                         THEN CloseReport(id, reason, TRUE, run.results)
                                         ELSE Failure(CloseReport(id, reason, FALSE, run.results),
                                                      "RecursionError")
    /\ UNCHANGED <<deps, hooks, nextHookId, now, closing>>

\* a reopen that takes back a close only
Reopenable_DoneOnly == {"done"}

\* reopen: the statuses it accepts
Reopenable == {"done", "cancelled"}

\* chisel reopen id
cli_reopen(id) ==
    /\ IF ~ Exists(tasks, id)
       THEN /\ result' = Failure(Report("reopen", id, FALSE, <<>>), NotFound)
            /\ UNCHANGED tasks
       ELSE IF tasks[id].status \notin Reopenable
       THEN /\ result' = Failure(Report("reopen", id, FALSE, <<>>),
                                  "not closed or cancelled")
            /\ UNCHANGED tasks
       ELSE /\ tasks' = update_task(tasks, id, [status |-> "open"])
            /\ result' = Report("reopen", id, TRUE, <<>>)
    /\ spawned' = <<>>
    /\ UNCHANGED <<deps, hooks, nextHookId, now, closing>>

\* chisel validate id
cli_validate(id, outs) ==
    /\ IF ~ Exists(tasks, id)
       THEN /\ result' = Failure(Report("validate", id, FALSE, <<>>), NotFound)
            /\ spawned' = <<>>
       ELSE LET run == run_hooks(hooks, "pre-close", outs)
            IN  /\ spawned' = run.spawned
                /\ result' = Report("validate", id, AllPassed(run.results), run.results)
    /\ UNCHANGED <<tasks, deps, hooks, nextHookId, now, closing>>

\* a direct call of decompose_task(storage, parent_id, titles, story_points)
call_decompose_task(pool, parent_id, titles, story_points) ==
    /\ Cardinality(FreeIds(tasks, pool)) >= Len(titles)
    /\ IF ~ Exists(tasks, parent_id)
       THEN /\ result' = Failure(DecomposeReport("decompose_task", parent_id, FALSE,
                                                  titles, story_points, <<>>), NotFound)
            /\ UNCHANGED tasks
       ELSE LET done == decompose_task(tasks, pool, parent_id, titles, story_points)
            IN  /\ tasks' = done.tasks
                /\ result' = DecomposeReport("decompose_task", parent_id, TRUE,
                                             titles, story_points, done.subtasks)
    /\ spawned' = <<>>
    /\ UNCHANGED <<deps, hooks, nextHookId, now, closing>>

\* chisel decompose id title... [--points p,p,...]: points is the option,
\* split at the commas; an absent and an empty option are both false
cli_decompose(pool, parent_id, titles, points) ==
    /\ titles # <<>>
    /\ Cardinality(FreeIds(tasks, pool)) >= Len(titles)
    /\ LET supplied == points.given /\ points.list # <<>>
           point_list == IF supplied THEN GivenList(ParsePoints(points.list)) ELSE NoList
       IN  IF supplied /\ (\E i \in DOMAIN points.list : ParseInt(points.list[i]) = NotAnInt)
           THEN /\ result' = Failure(DecomposeReport("decompose", parent_id, FALSE,
                                                      titles, points, <<>>),
                                      "Invalid points format")
                /\ UNCHANGED tasks
           ELSE IF supplied /\ Len(points.list) # Len(titles)
           THEN /\ result' = Failure(DecomposeReport("decompose", parent_id, FALSE,
                                                      titles, points, <<>>),
                                      "Number of points must match number of subtasks")
                /\ UNCHANGED tasks
           ELSE IF ~ Exists(tasks, parent_id)
           THEN /\ result' = Failure(DecomposeReport("decompose", parent_id, FALSE,
                                                      titles, points, <<>>), NotFound)
                /\ UNCHANGED tasks
           ELSE LET done == decompose_task(tasks, pool, parent_id, titles, point_list)
                IN  /\ tasks' = done.tasks
                    /\ result' = DecomposeReport("decompose", parent_id, TRUE,
                                                 titles, points, done.subtasks)
    /\ spawned' = <<>>
    /\ UNCHANGED <<deps, hooks, nextHookId, now, closing>>

\* dep_add without its task_id == blocked_by test
SelfDependency_Never(t, b) == FALSE

\* cli.py dep_add: if task_id == blocked_by
SelfDependency(t, b) == t = b

\* dep_add that looks up the blocker only
EndpointMissing_BlockerOnly(tsk, t, b) == ~ Exists(tsk, b)

\* dep_add that looks up the dependent only
EndpointMissing_DependentOnly(tsk, t, b) == ~ Exists(tsk, t)

\* dep_add: "if task is None" and "if blocker is None"
EndpointMissing(tsk, t, b) == ~ Exists(tsk, t) \/ ~ Exists(tsk, b)

\* chisel dep add t --blocked-by b --type ty
cli_dep_add(t, b, ty) ==
    /\ BagCardinality(deps) < MaxDeps \/ BagIn(Edge(t, b, ty), deps)
    /\ IF EndpointMissing(tasks, t, b)
       THEN /\ result' = Failure(DepReport("dep add", t, b, ty, FALSE), NotFound)
            /\ UNCHANGED deps
       ELSE IF SelfDependency(t, b)
       THEN /\ result' = Failure(DepReport("dep add", t, b, ty, FALSE),
                                  "Task cannot depend on itself")
            /\ UNCHANGED deps
       ELSE IF UniqueViolation(deps, Edge(t, b, ty))
       THEN /\ result' = Failure(DepReport("dep add", t, b, ty, FALSE),
                                  "Failed to add dependency")
            /\ UNCHANGED deps
       ELSE /\ deps' = InsertRow(deps, Edge(t, b, ty))
            /\ result' = DepReport("dep add", t, b, ty, TRUE)
    /\ spawned' = <<>>
    /\ UNCHANGED <<tasks, hooks, nextHookId, now, closing>>

\* DELETE ... WHERE (task_id = ? AND depends_on_id = ?) in either direction
RowsBetween_EitherDirection(dps, t, b) ==
    {d \in DepRows(dps) : \/ d.task_id = t /\ d.depends_on_id = b
                          \/ d.task_id = b /\ d.depends_on_id = t}

\* the rows DELETE ... WHERE task_id = ? AND depends_on_id = ? matches
RowsBetween(dps, t, b) == {d \in DepRows(dps) : d.task_id = t /\ d.depends_on_id = b}

\* what remove_dependency was asked for and what it returns: rowcount > 0
RemoveReport(op, t, b, removed) ==
    [op |-> op, task_id |-> t, ok |-> removed, hook_results |-> <<>>, depends_on_id |-> b]

\* Storage.remove_dependency, with what it returns to its caller
call_remove_dependency(t, b) ==
    /\ deps' = DeleteRows(deps, RowsBetween(deps, t, b))
    /\ result' = RemoveReport("remove_dependency", t, b, RowsBetween(deps, t, b) # {})
    /\ spawned' = <<>>
    /\ UNCHANGED <<tasks, hooks, nextHookId, now, closing>>

\* chisel dep remove t b
cli_dep_remove(t, b) ==
    /\ deps' = DeleteRows(deps, RowsBetween(deps, t, b))
    /\ result' = IF RowsBetween(deps, t, b) # {}
                 THEN RemoveReport("dep remove", t, b, TRUE)
                 ELSE Failure(RemoveReport("dep remove", t, b, FALSE), "Dependency not found")
    /\ spawned' = <<>>
    /\ UNCHANGED <<tasks, hooks, nextHookId, now, closing>>

\* SELECT * FROM dependencies WHERE task_id = ?
get_dependencies(dps, id) == [d \in {x \in DOMAIN dps : x.task_id = id} |-> dps[d]]

\* SELECT * FROM dependencies WHERE depends_on_id = ?
get_dependents(dps, id) == [d \in {x \in DOMAIN dps : x.depends_on_id = id} |-> dps[d]]

\* what show and dep list print of the dependencies table
EdgesReport(op, id, children) ==
    [op |-> op, task_id |-> id, ok |-> TRUE, hook_results |-> <<>>,
     dependencies |-> get_dependencies(deps, id),
     dependents |-> get_dependents(deps, id), children |-> children]

\* chisel show id
cli_show(id) ==
    /\ IF ~ Exists(tasks, id)
       THEN result' = Failure(Report("show", id, FALSE, <<>>), NotFound)
       ELSE result' = EdgesReport("show", id,
                          IF tasks[id].task_type = "epic"
                          THEN OrderRows(tasks, get_children(tasks, id)) ELSE <<>>)
    /\ spawned' = <<>>
    /\ UNCHANGED <<tasks, deps, hooks, nextHookId, now, closing>>

\* chisel dep list id
cli_dep_list(id) ==
    /\ IF ~ Exists(tasks, id)
       THEN result' = Failure(Report("dep list", id, FALSE, <<>>), NotFound)
       ELSE result' = EdgesReport("dep list", id, <<>>)
    /\ spawned' = <<>>
    /\ UNCHANGED <<tasks, deps, hooks, nextHookId, now, closing>>

\* the tasks _build_tree_node visits below the ones in frontier
RECURSIVE Below(_, _, _)
Below(tsk, seen, frontier) ==
    IF frontier \subseteq seen THEN seen
    ELSE Below(tsk, seen \cup frontier,
               UNION {get_children(tsk, c) : c \in frontier})

\* _build_tree_node comes back to a task it is already building: the parent
\* links below id form a loop and the recursion has no end
TreeLoops(tsk, id) ==
    \E x \in {id} \cup Below(tsk, {}, get_children(tsk, id)) :
        x \in Below(tsk, {}, get_children(tsk, x))

\* _build_tree_node(storage, task)
RECURSIVE build_tree_node(_, _)
build_tree_node(tsk, id) ==
    LET children == OrderRows(tsk, get_children(tsk, id))
    IN  [task |-> id,
         children |-> [i \in DOMAIN children |-> build_tree_node(tsk, children[i])]]

\* chisel tree id; where the parent links loop Python raises RecursionError
cli_tree(id) ==
    /\ IF ~ Exists(tasks, id)
       THEN result' = Failure(Report("tree", id, FALSE, <<>>), NotFound)
       ELSE IF TreeLoops(tasks, id)
       THEN result' = Failure(Report("tree", id, FALSE, <<>>), "RecursionError")
       ELSE result' = [op |-> "tree", task_id |-> id, ok |-> TRUE, hook_results |-> <<>>,
                       tree |-> build_tree_node(tasks, id)]
    /\ spawned' = <<>>
    /\ UNCHANGED <<tasks, deps, hooks, nextHookId, now, closing>>

----------------------------------------------------------------------------
(* cli.py close with decompose.py update_parent_status, run as a process: *)
(* one step for each call of the store                                    *)

\* the locals of close(task_id) before its first call
CloseLocals(task_id) ==
    [pc |-> "get_task", description |-> <<>>, cur |-> task_id, parent_id |-> NULL,
     all_done |-> FALSE, any_in_progress |-> FALSE]

\* the close of id goes on with the locals given
Goto(id, locals) == closing' = [closing EXCEPT ![id] = locals]

\* the close of id ends, with the report given
Finish(id, pc, report) ==
    /\ closing' = [closing EXCEPT ![id].pc = pc]
    /\ result' = report

\* chisel close id is started
close_start(id) ==
    /\ id \notin DOMAIN closing
    /\ Cardinality(DOMAIN closing) < MaxClosing
    /\ closing' = [i \in DOMAIN closing \cup {id} |->
                      IF i = id THEN CloseLocals(id) ELSE closing[i]]
    /\ UNCHANGED <<tasks, deps, hooks, nextHookId, now, result, spawned>>

\* close: existing = storage.get_task(task_id)
close_get_task(id) ==
    /\ id \in DOMAIN closing
    /\ closing[id].pc = "get_task"
    /\ IF ~ Exists(tasks, id)
       THEN Finish(id, "failed", Failure(Report("close", id, FALSE, <<>>), NotFound))
       ELSE /\ Goto(id, [closing[id] EXCEPT !.pc = "run_hooks",
                                            !.description = tasks[id].description])
            /\ UNCHANGED result
    /\ UNCHANGED <<tasks, deps, hooks, nextHookId, now, spawned>>

\* close: hook_results = run_hooks(storage, "pre-close", task_id)
close_run_hooks(id, outs) ==
    /\ id \in DOMAIN closing
    /\ closing[id].pc = "run_hooks"
    /\ LET run == run_hooks(hooks, "pre-close", outs)
       IN  /\ spawned' = run.spawned
           /\ IF HooksFailed(run.results)
              THEN Finish(id, "failed", Failure(Report("close", id, FALSE, run.results),
                                                "Pre-close hooks failed"))
              ELSE /\ Goto(id, [closing[id] EXCEPT !.pc = "update_task"])
                   /\ UNCHANGED result
    /\ UNCHANGED <<tasks, deps, hooks, nextHookId, now>>

\* close: storage.update_task(task_id, status="done", description=description)
close_update_task(id) ==
    /\ id \in DOMAIN closing
    /\ closing[id].pc = "update_task"
    /\ tasks' = update_task(tasks, id, [status |-> "done",
                                        description |-> closing[id].description])
    /\ Goto(id, [closing[id] EXCEPT !.pc = "rollup_get_task", !.cur = id])
    /\ UNCHANGED <<deps, hooks, nextHookId, now, result, spawned>>

\* update_parent_status: task = storage.get_task(task_id), and the return
\* when there is no task or no parent
rollup_get_task(id) ==
    /\ id \in DOMAIN closing
    /\ closing[id].pc = "rollup_get_task"
    /\ LET cur == closing[id].cur
       IN  IF ~ Exists(tasks, cur) \/ tasks[cur].parent_id = NULL
           THEN Finish(id, "closed", Report("close", id, TRUE, <<>>))
           ELSE /\ Goto(id, [closing[id] EXCEPT !.pc = "get_children",
                                                !.parent_id = tasks[cur].parent_id])
                /\ UNCHANGED result
    /\ UNCHANGED <<tasks, deps, hooks, nextHookId, now, spawned>>

\* update_parent_status: children = storage.get_children(parent_id), with
\* all_done and any_in_progress computed from the rows it returned
rollup_get_children(id) ==
    /\ id \in DOMAIN closing
    /\ closing[id].pc = "get_children"
    /\ LET children == get_children(tasks, closing[id].parent_id)
       IN  IF children = {}
           THEN Finish(id, "closed", Report("close", id, TRUE, <<>>))
           ELSE /\ Goto(id, [closing[id] EXCEPT
                                !.pc = "get_parent",
                                !.all_done = \A c \in children : tasks[c].status \in Finished,
                                !.any_in_progress =
                                    \E c \in children : tasks[c].status = "in_progress"])
                /\ UNCHANGED result
    /\ UNCHANGED <<tasks, deps, hooks, nextHookId, now, spawned>>

\* update_parent_status: parent = storage.get_task(parent_id), and the
\* choice of the write from all_done, any_in_progress and parent.status
rollup_get_parent(id) ==
    /\ id \in DOMAIN closing
    /\ closing[id].pc = "get_parent"
    /\ LET parent_id == closing[id].parent_id
       IN  IF ~ Exists(tasks, parent_id)
           THEN Finish(id, "closed", Report("close", id, TRUE, <<>>))
           ELSE /\ Goto(id, [closing[id] EXCEPT
                                !.pc = IF closing[id].all_done THEN "update_done"
                                       ELSE IF closing[id].any_in_progress
                                               /\ tasks[parent_id].status = "open"
                                       THEN "update_in_progress"
                                       ELSE "rollup_get_task",
                                !.cur = IF closing[id].all_done
                                           \/ (closing[id].any_in_progress
                                               /\ tasks[parent_id].status = "open")
                                        THEN @ ELSE parent_id])
                /\ UNCHANGED result
    /\ UNCHANGED <<tasks, deps, hooks, nextHookId, now, spawned>>

\* update_parent_status: storage.update_task(parent_id, status=...), then
\* update_parent_status(storage, parent_id)
rollup_update_task(id) ==
    /\ id \in DOMAIN closing
    /\ closing[id].pc \in {"update_done", "update_in_progress"}
    /\ tasks' = update_task(tasks, closing[id].parent_id,
                            [status |-> IF closing[id].pc = "update_done"
                                        THEN "done" ELSE "in_progress"])
    /\ Goto(id, [closing[id] EXCEPT !.pc = "rollup_get_task", !.cur = closing[id].parent_id])
    /\ UNCHANGED <<deps, hooks, nextHookId, now, result, spawned>>

----------------------------------------------------------------------------
(* The store and its resolver *)

TaskIds == 1 .. NumTasks

\* the first task alone, where one task is enough
OneTask == {1}

Init ==
    /\ tasks = <<>>
    /\ deps = EmptyBag
    /\ hooks = <<>>
    /\ nextHookId = 1
    /\ now = 0
    /\ result = Report("init", NULL, TRUE, <<>>)
    /\ spawned = <<>>
    /\ closing = <<>>

\* one status of each kind the resolver's queries tell apart: open, unfinished
\* but not open, done, cancelled
ResolverStatus == {"open", "in_progress", "done", "cancelled"}

Next ==
    \/ create_task(TaskIds, NULL, DefaultPriority, NoTime)
    \/ \E id \in TaskIds, s \in ResolverStatus : update_task_status(id, s)
    \/ \E id \in TaskIds : delete_task(id)
    \/ \E t, b \in TaskIds, ty \in {"blocks", "related"} : add_dependency(t, b, ty)
    \/ \E t, b \in TaskIds : remove_dependency(t, b)

Spec == Init /\ [][Next]_vars

----------------------------------------------------------------------------
(* The rollup engine over task trees: parents are given at creation *)

TreeIds == 1 .. NumTreeTasks

\* one status of each kind update_parent_status tells apart: open,
\* in_progress, done or cancelled, and any other
RollupStatus == {"open", "in_progress", "blocked", "done", "cancelled"}

NextRollup ==
    \/ \E p \in {NULL} \cup DOMAIN tasks : create_task(TreeIds, p, DefaultPriority, NoTime)
    \/ \E id \in TreeIds, s \in RollupStatus : update_task_status(id, s)
    \/ \E id \in TreeIds : rollup(id)

SpecRollup == Init /\ [][NextRollup]_vars

----------------------------------------------------------------------------
(* The hook pipeline over the hooks table *)

AllHookIds == 1 .. MaxHooks

\* the first hook alone
OneHook == {1}

NextHooks ==
    \/ \E e \in Events : add_hook(e)
    \/ \E h \in AllHookIds : remove_hook(h)
    \/ \E h \in AllHookIds, en \in BOOLEAN : set_hook_enabled(h, en)
    \/ \E e \in Events, outs \in [HookIds(hooks) -> Outcomes] : call_run_hooks(e, outs)

SpecHooks == Init /\ [][NextHooks]_vars

----------------------------------------------------------------------------
(* The commands that change a status, over task trees guarded by hooks *)

NextCli ==
    \/ \E p \in {NULL} \cup DOMAIN tasks : cli_create(TaskIds, p)
    \/ \E id \in TaskIds, s \in TaskStatus : cli_update(id, s)
    \/ \E id \in TaskIds, reason \in {NoReason, "r"}, outs \in [HookIds(hooks) -> Outcomes] :
            cli_close(id, reason, outs)
    \/ \E id \in TaskIds : cli_reopen(id)
    \/ add_hook("pre-close")
    \/ \E h \in AllHookIds, en \in BOOLEAN : set_hook_enabled(h, en)

SpecCli == Init /\ [][NextCli]_vars

----------------------------------------------------------------------------
(* Closing tasks of a tree behind pre-close hooks *)

\* the hook commands of this model exit with 0 or 1; timeouts and spawn errors
\* take the same branch of close as exit 1 (success = False)
CloseOutcomes == {"exit0", "exit1"}

NextClose ==
    \/ \E p \in {NULL} \cup DOMAIN tasks : cli_create(TaskIds, p)
    \/ \E id \in TaskIds, reason \in {NoReason, "r"}, outs \in [HookIds(hooks) -> CloseOutcomes] :
            cli_close(id, reason, outs)
    \/ nextHookId <= MaxCloseHooks /\ add_hook("pre-close")
    \/ \E h \in AllHookIds, en \in BOOLEAN : set_hook_enabled(h, en)

SpecClose == Init /\ [][NextClose]_vars

----------------------------------------------------------------------------
(* Validation and close over enabled and disabled hooks *)

NextValidate ==
    \/ cli_create(TaskIds, NULL)
    \/ \E id \in TaskIds, outs \in [HookIds(hooks) -> CloseOutcomes] : validate_task(id, outs)
    \/ \E id \in TaskIds, outs \in [HookIds(hooks) -> CloseOutcomes] : cli_validate(id, outs)
    \/ \E id \in TaskIds, outs \in [HookIds(hooks) -> CloseOutcomes] : cli_close(id, NoReason, outs)
    \/ \E e \in Events \cup {""}, outs \in [HookIds(hooks) -> CloseOutcomes] : call_run_hooks(e, outs)
    \/ \E e \in Events : nextHookId <= MaxCloseHooks /\ add_hook(e)
    \/ \E h \in AllHookIds, en \in BOOLEAN : set_hook_enabled(h, en)

SpecValidate == Init /\ [][NextValidate]_vars

----------------------------------------------------------------------------
(* Enabling and disabling hooks around the operations that run them *)

NextDisabled ==
    \/ cli_create(OneTask, NULL)
    \/ \E id \in OneTask, outs \in [HookIds(hooks) -> CloseOutcomes] : cli_close(id, NoReason, outs)
    \/ \E id \in OneTask, outs \in [HookIds(hooks) -> CloseOutcomes] : cli_validate(id, outs)
    \/ \E id \in OneTask, outs \in [HookIds(hooks) -> CloseOutcomes] : validate_task(id, outs)
    \/ \E e \in Events \cup {""}, outs \in [HookIds(hooks) -> CloseOutcomes] : call_run_hooks(e, outs)
    \/ \E e \in Events : nextHookId <= MaxCloseHooks /\ add_hook(e)
    \/ \E h \in AllHookIds, en \in BOOLEAN : set_hook_enabled(h, en)

SpecDisabled == Init /\ [][NextDisabled]_vars

----------------------------------------------------------------------------
(* Decomposition of tasks into subtasks *)

\* title lists: n distinct titles, in ascending and in descending order
TitleLists ==
    {[i \in 1 .. n |-> i] : n \in 0 .. MaxTitles} \cup
    {[i \in 1 .. n |-> n + 1 - i] : n \in 0 .. MaxTitles}

\* point lists for a direct call: none, or 3, 5, 3, ... of any length
PointLists ==
    {NoList} \cup
    {GivenList([i \in 1 .. n |-> IF i % 2 = 1 THEN 3 ELSE 5]) : n \in 0 .. MaxTitles}

\* --points options: none, "3,5,3,..." of any length, or one ending in text
\* that is not a number
PointOptions ==
    {NoList} \cup
    {GivenList([i \in 1 .. n |-> IF i % 2 = 1 THEN "3" ELSE "5"]) : n \in 0 .. MaxTitles} \cup
    {GivenList([i \in 1 .. n |-> IF i = n THEN "x" ELSE IF i % 2 = 1 THEN "3" ELSE "5"]) :
         n \in 1 .. MaxTitles}

NextDecompose ==
    \/ \E p \in {1, DefaultPriority} : create_task(OneTask, NULL, p, NoTime)
    \/ \E id \in OneTask : update_task_status(id, "done")
    \/ \E P \in TreeIds, titles \in TitleLists, points \in PointLists :
            call_decompose_task(TreeIds, P, titles, points)
    \/ \E P \in TreeIds, titles \in TitleLists, points \in PointOptions :
            cli_decompose(TreeIds, P, titles, points)

SpecDecompose == Init /\ [][NextDecompose]_vars

----------------------------------------------------------------------------
(* The dependencies table under the store's calls and the dep add command *)

NextDeps ==
    \/ create_task(TaskIds, NULL, DefaultPriority, NoTime)
    \/ \E id \in TaskIds : call_delete_task(id)
    \/ \E t, b \in TaskIds, ty \in {"blocks", "related"} : call_add_dependency(t, b, ty)
    \/ \E t, b \in TaskIds, ty \in {"blocks", "related"} : cli_dep_add(t, b, ty)

SpecDeps == Init /\ [][NextDeps]_vars

----------------------------------------------------------------------------
(* The resolver over edges of every dependency type, from one task *)

NextEdgeTypes ==
    \/ create_task(TaskIds, NULL, DefaultPriority, NoTime)
    \/ \E id \in TaskIds, s \in {"in_progress", "done"} : update_task_status(id, s)
    \/ \E t \in OneTask, b \in TaskIds, ty \in DependencyType : add_dependency(t, b, ty)
    \/ \E t \in OneTask, b \in TaskIds : remove_dependency(t, b)

SpecEdgeTypes == Init /\ [][NextEdgeTypes]_vars

----------------------------------------------------------------------------
(* Updates of one task, stored or deleted, beside other tasks, an edge and  *)
(* a hook                                                                  *)

\* keyword arguments: each of title, priority and status given or left out
UpdateArgs ==
    [title : {None, Some(1)}, priority : {None, Some(1)},
     status : {None, Some("in_progress")}]

NextUpdate ==
    \/ create_task(TaskIds, NULL, DefaultPriority, NoTime)
    \/ \E id \in OneTask, kwargs \in UpdateArgs : call_update_task(id, kwargs)
    \/ \E id \in OneTask : delete_task(id)
    \/ \E t \in OneTask : add_dependency(t, t, "blocks")
    \/ hooks = <<>> /\ add_hook("pre-close")
    \/ Tick

SpecUpdate == Init /\ [][NextUpdate]_vars

----------------------------------------------------------------------------
(* Listing tasks of two priorities; one of them gets labels and is finished *)

\* labels of one letter
LabelA == <<"a">>
LabelUpperA == <<"A">>
LabelEAcute == <<EAcute>>

ListUpdateArgs ==
    {[labels |-> Some(<<LabelA>>), status |-> None],
     [labels |-> Some(<<LabelEAcute>>), status |-> None],
     [labels |-> None, status |-> Some("done")]}

ListFilters ==
    [status : {None, Some("open")}, priority : {None, Some(1)},
     labels : {None, Some(<<LabelA>>), Some(<<LabelUpperA>>), Some(<<LabelEAcute>>)}]

\* no limit, LIMIT -1, and a limit below the number of tasks
Limits == {None, Some(-1), Some(NumTasks - 1)}

NextList ==
    \/ \E p \in {1, DefaultPriority} : create_task(TaskIds, NULL, p, NoTime)
    \/ \E id \in OneTask, kwargs \in ListUpdateArgs : call_update_task(id, kwargs)
    \/ \E filters \in ListFilters, limit \in Limits : call_list_tasks(filters, limit)
    \/ \E n \in {-1, NumTasks - 1, NumTasks} : call_get_ready_tasks(n)
    \/ Tick

SpecList == Init /\ [][NextList]_vars

----------------------------------------------------------------------------
(* Progress of one parent: its children get statuses and story points *)

\* the parent and up to NumTreeTasks children
ProgressIds == 1 .. NumTreeTasks + 1

ChildIds == ProgressIds \ OneTask

\* a status that is none of TaskStatus: update_task stores any string
OtherStatus == "paused"

\* an estimate, and a negative one: update_task stores any integer
PointArgs == {[story_points |-> Some(3)], [story_points |-> Some(-5)]}

NextProgress ==
    \/ \E p \in (IF tasks = <<>> THEN {NULL} ELSE OneTask) :
            create_task(ProgressIds, p, DefaultPriority, NoTime)
    \/ \E id \in ChildIds, st \in {"done", "cancelled", OtherStatus} :
            update_task_status(id, st)
    \/ \E id \in ChildIds, kwargs \in PointArgs : call_update_task(id, kwargs)
    \/ \E P \in OneTask : call_get_subtask_progress(P)

SpecProgress == Init /\ [][NextProgress]_vars

----------------------------------------------------------------------------
(* The commands that take a task id, on ids that are and are not stored *)

\* the commands that look a task id up
IdCommands ==
    {"show", "update", "close", "reopen", "dep add", "dep list", "decompose",
     "tree", "validate"}

\* --points options for one title: none, one that is not a number, two numbers
FewPointOptions == {NoList, GivenList(<<"x">>), GivenList(<<"3", "5">>)}

NextMissing ==
    \/ cli_create(OneTask, NULL)
    \/ \E id \in OneTask : call_delete_task(id)
    \/ hooks = <<>> /\ add_hook("pre-close")
    \/ \E t \in OneTask, b \in TaskIds : cli_dep_add(t, b, "blocks")
    \/ \E t \in TaskIds \ OneTask, b \in OneTask : cli_dep_add(t, b, "blocks")
    \/ \E id \in OneTask : cli_show(id)
    \/ \E id \in OneTask : cli_update(id, "open")
    \/ \E id \in OneTask, outs \in [HookIds(hooks) -> CloseOutcomes] : cli_close(id, NoReason, outs)
    \/ \E id \in OneTask : cli_reopen(id)
    \/ \E id \in OneTask : cli_dep_list(id)
    \/ \E id \in OneTask, points \in FewPointOptions :
            cli_decompose(TaskIds, id, <<DefaultTitle>>, points)
    \/ \E id \in OneTask : cli_tree(id)
    \/ \E id \in OneTask, outs \in [HookIds(hooks) -> CloseOutcomes] : cli_validate(id, outs)

SpecMissing == Init /\ [][NextMissing]_vars

----------------------------------------------------------------------------
(* The operations that write a status *)

\* --status values: three of the six, and one that is none of them
StatusOptions == {"in_progress", "cancelled", "review", OtherStatus}

NextStatus ==
    \/ cli_create(OneTask, NULL)
    \/ \E id \in TaskIds, s \in StatusOptions : cli_update(id, s)
    \/ \E id \in TaskIds : cli_close(id, NoReason, <<>>)
    \/ \E id \in TaskIds : cli_reopen(id)
    \/ \E id \in OneTask : cli_decompose(TaskIds, id, <<DefaultTitle>>, NoList)
    \/ \E id \in TaskIds : rollup(id)

SpecStatus == Init /\ [][NextStatus]_vars

----------------------------------------------------------------------------
(* Parent links under create, decompose, update and delete *)

\* an id no task ever gets
NoSuchTask == NumTasks + 1

NextParents ==
    \/ \E p \in {NULL, NoSuchTask} \cup DOMAIN tasks : cli_create(TaskIds, p)
    \/ \E id \in OneTask : cli_decompose(TaskIds, id, <<DefaultTitle>>, NoList)
    \/ \E id, p \in TaskIds : call_update_task(id, [parent_id |-> Some(p)])
    \/ \E id \in TaskIds : update_task_status(id, "done")
    \/ \E id \in TaskIds : call_delete_task(id)
    \/ \E id \in TaskIds : rollup(id)
    \/ \E id \in TaskIds : cli_tree(id)

SpecParents == Init /\ [][NextParents]_vars

----------------------------------------------------------------------------
(* Cycles of blocks edges *)

\* the task after t around the ring of all task ids
NextInRing(t) == (t % NumTasks) + 1

NextCycles ==
    \/ create_task(TaskIds, NULL, DefaultPriority, NoTime)
    \/ \E id \in TaskIds : update_task_status(id, "in_progress")
    \/ \E id \in OneTask : update_task_status(id, "done")
    \/ \E id \in OneTask : delete_task(id)
    \/ \E t \in TaskIds : \E b \in {t, NextInRing(t)} : call_add_dependency(t, b, "blocks")
    \/ \E t \in TaskIds : \E b \in {t, NextInRing(t)} : cli_dep_add(t, b, "blocks")
    \/ \E t \in OneTask : remove_dependency(t, NextInRing(t))

SpecCycles == Init /\ [][NextCycles]_vars

----------------------------------------------------------------------------
(* The rollup while the clock advances *)

NextRollupClock ==
    \/ \E p \in {NULL} \cup DOMAIN tasks : create_task(TaskIds, p, DefaultPriority, NoTime)
    \/ \E id \in TaskIds, s \in {"in_progress", "done", "cancelled"} : update_task_status(id, s)
    \/ \E id \in TaskIds : rollup(id)
    \/ Tick

SpecRollupClock == Init /\ [][NextRollupClock]_vars

----------------------------------------------------------------------------
(* The endpoints of the edges under the commands and delete_task *)

NextEndpoints ==
    \/ cli_create(TaskIds, NULL)
    \/ \E id \in OneTask : cli_update(id, "in_progress")
    \/ \E id \in OneTask : cli_close(id, NoReason, <<>>)
    \/ \E id \in TaskIds : call_delete_task(id)
    \/ \E t \in TaskIds : \E b \in TaskIds \cup {NoSuchTask} : cli_dep_add(t, b, "blocks")
    \/ \E t \in {NoSuchTask} : \E b \in OneTask : cli_dep_add(t, b, "blocks")
    \/ \E t, b \in TaskIds : cli_dep_remove(t, b)

SpecEndpoints == Init /\ [][NextEndpoints]_vars

----------------------------------------------------------------------------
(* Removing edges of several types, in both directions *)

NextRemove ==
    \/ create_task(TaskIds, NULL, DefaultPriority, NoTime)
    \/ \E t, b \in TaskIds, ty \in {"blocks", "related"} : add_dependency(t, b, ty)
    \/ \E t, b \in TaskIds : call_remove_dependency(t, b)
    \/ \E t, b \in TaskIds : cli_dep_remove(t, b)

SpecRemove == Init /\ [][NextRemove]_vars

----------------------------------------------------------------------------
(* Close on tasks of every status, with blockers, a hook and a reason; the   *)
(* clock advances between the creation of the tasks and the commands on them *)

NextCloseTask ==
    \/ \E p \in {NULL} \cup DOMAIN tasks : cli_create(TaskIds, p)
    \/ \E id \in OneTask, s \in {"in_progress", "blocked", "review", "cancelled"} :
            cli_update(id, s)
    \/ \E t \in OneTask : cli_dep_add(t, NextInRing(t), "blocks")
    \/ hooks = <<>> /\ add_hook("pre-close")
    \/ \E h \in OneHook : set_hook_enabled(h, FALSE)
    \/ \E id \in TaskIds, outs \in [HookIds(hooks) -> CloseOutcomes] :
            call_close(id, NoReason, outs)
    \/ \E id \in OneTask, outs \in [HookIds(hooks) -> CloseOutcomes] :
            call_close(id, "r", outs)
    \/ result.op = "create" /\ FreeIds(tasks, TaskIds) = {} /\ Tick

SpecCloseTask == Init /\ [][NextCloseTask]_vars

----------------------------------------------------------------------------
(* Close commands that run at the same time on the tasks of a tree *)

NextConcurrent ==
    \/ closing = <<>> /\ \E p \in {NULL} \cup DOMAIN tasks :
            create_task(TreeIds, p, DefaultPriority, NoTime)
    \/ closing = <<>> /\ \E id \in TreeIds, s \in {"in_progress", "cancelled"} :
            update_task_status(id, s)
    \/ \E id \in DOMAIN tasks : close_start(id)
    \/ \E id \in TreeIds : close_get_task(id)
    \/ \E id \in TreeIds, outs \in [HookIds(hooks) -> CloseOutcomes] : close_run_hooks(id, outs)
    \/ \E id \in TreeIds : close_update_task(id)
    \/ \E id \in TreeIds : rollup_get_task(id)
    \/ \E id \in TreeIds : rollup_get_children(id)
    \/ \E id \in TreeIds : rollup_get_parent(id)
    \/ \E id \in TreeIds : rollup_update_task(id)

SpecConcurrent == Init /\ [][NextConcurrent]_vars

----------------------------------------------------------------------------
(* Deferred tasks: the store's resolver while the clock advances *)

DeferTimes == {NoTime} \cup (0 .. MaxTime)

NextDefer ==
    \/ \E d \in DeferTimes : create_task(TaskIds, NULL, DefaultPriority, d)
    \/ \E id \in TaskIds, s \in {"open", "in_progress", "done"} : update_task_status(id, s)
    \/ \E t, b \in TaskIds : add_dependency(t, b, "blocks")
    \/ Tick

SpecDefer == Init /\ [][NextDefer]_vars

----------------------------------------------------------------------------
(* Finishing blockers: update and close over trees with blocks edges *)

NextUnblock ==
    \/ \E p \in {NULL} \cup DOMAIN tasks, d \in {NoTime, MaxTime} :
            create_task(TaskIds, p, DefaultPriority, d)
    \/ \E id \in TaskIds : cli_update(id, "done")
    \/ \E id \in TaskIds, outs \in [HookIds(hooks) -> CloseOutcomes] : cli_close(id, NoReason, outs)
    \/ \E t, b \in TaskIds : cli_dep_add(t, b, "blocks")

SpecUnblock == Init /\ [][NextUnblock]_vars

----------------------------------------------------------------------------
(* Vocabulary of the properties *)

\* ready(limit) with limit at least the number of tasks, and blocked(), as sets
ReadyNow == Range(get_ready_tasks(tasks, DepRows(deps), now, Cardinality(DOMAIN tasks)))

BlockedNow == Range(get_blocked_tasks(tasks, DepRows(deps)))

NoDuplicates(s) == \A i, j \in DOMAIN s : i # j => s[i] # s[j]

\* the blocks-prerequisites of T that are tasks of the store and not finished
UnfinishedPrereqs(T) ==
    {B \in DOMAIN tasks :
        /\ Edge(T, B, "blocks") \in DepRows(deps)
        /\ tasks[B].status # "done" /\ tasks[B].status # "cancelled"}

\* the step is update_parent_status(c), and c has a parent that resolves
RollupOn(c) ==
    /\ result'.op = "update_parent_status"
    /\ result'.task_id = c
    /\ c \in DOMAIN tasks
    /\ tasks[c].parent_id \in DOMAIN tasks

\* the last operation was update_parent_status(c), and c has a parent that resolves
RolledUp(c) ==
    /\ result.op = "update_parent_status"
    /\ result.task_id = c
    /\ c \in DOMAIN tasks
    /\ tasks[c].parent_id \in DOMAIN tasks

ChildrenOf(P) == {k \in DOMAIN tasks : tasks[k].parent_id = P}

RECURSIVE AncestorsOf(_)
AncestorsOf(c) ==
    IF c \in DOMAIN tasks /\ tasks[c].parent_id \in DOMAIN tasks
    THEN {tasks[c].parent_id} \cup AncestorsOf(tasks[c].parent_id)
    ELSE {}

\* the members of the chain strictly between c and its ancestor A
Between(c, A) == AncestorsOf(c) \ ({A} \cup AncestorsOf(A))

\* every child of an ancestor of c that is off the chain is done or cancelled
OffChainFinished(c) ==
    \A A \in AncestorsOf(c) : \A k \in ChildrenOf(A) :
        k # c /\ k \notin AncestorsOf(c) => tasks[k].status \in {"done", "cancelled"}

----------------------------------------------------------------------------
(* C1: in every reachable state ready(limit), with limit at least the       *)
(* number of tasks, returns exactly the tasks that are open, whose          *)
(* defer_until is unset or has elapsed, and that have no blocks-edge to a   *)
(* prerequisite with a status other than done or cancelled.                 *)
Orig_C1_ReadyExact ==
    ReadyNow = {T \in DOMAIN tasks :
                  /\ tasks[T].status = "open"
                  /\ tasks[T].defer_until = NoTime \/ tasks[T].defer_until < now
                  /\ UnfinishedPrereqs(T) = {}}

----------------------------------------------------------------------------
(* C2: in every reachable state blocked() returns exactly the tasks that    *)
(* are themselves neither done nor cancelled and have at least one blocks   *)
(* edge to a task that is neither done nor cancelled, each of them once.    *)
Thm_C2_BlockedExact ==
    /\ BlockedNow = {T \in DOMAIN tasks :
                        /\ tasks[T].status # "done" /\ tasks[T].status # "cancelled"
                        /\ UnfinishedPrereqs(T) # {}}
    /\ NoDuplicates(get_blocked_tasks(tasks, DepRows(deps)))

\* a task with two unfinished prerequisites is listed by blocked()
Wit_C2_TwoBlockers ==
    \E T \in DOMAIN tasks :
        /\ Cardinality(UnfinishedPrereqs(T)) >= 2
        /\ T \in BlockedNow

(* C3 as stated: every task with a blocks edge to an unfinished task is out *)
(* of ready() and in blocked().                                             *)
Orig_C3_BlockedWhileBlockerUnfinished ==
    \A T \in DOMAIN tasks :
        UnfinishedPrereqs(T) # {} => T \notin ReadyNow /\ T \in BlockedNow

(* C3 amended: a task with a blocks edge to an unfinished task is never in  *)
(* ready(), and it is in blocked() exactly when it is itself neither done   *)
(* nor cancelled.                                                           *)
Thm_C3_BlockedUnlessFinished ==
    \A T \in DOMAIN tasks :
        UnfinishedPrereqs(T) # {} =>
            /\ T \notin ReadyNow
            /\ T \in BlockedNow <=> tasks[T].status \notin {"done", "cancelled"}

\* an open task is kept out of ready() by an unfinished prerequisite
Wit_C3_OpenButBlocked ==
    \E T \in DOMAIN tasks :
        /\ tasks[T].status = "open"
        /\ UnfinishedPrereqs(T) # {}
        /\ T \in BlockedNow /\ T \notin ReadyNow

----------------------------------------------------------------------------
\* the step is an update with status done, or a close, of B that went through
SetDone(B) ==
    /\ result'.op \in {"update", "close"}
    /\ result'.task_id = B
    /\ result'.ok
    /\ B \in DOMAIN tasks
    /\ tasks[B].status \notin {"done", "cancelled"}
    /\ tasks'[B].status = "done"

(* C4 as stated: when T is open and B is its only unfinished                *)
(* blocks-prerequisite, right after B is set to done by update or close     *)
(* blocked() does not contain T and ready() contains T.                     *)
Orig_C4_UnblockedIsReady ==
    [][\A T, B \in DOMAIN tasks :
          tasks[T].status = "open" /\ UnfinishedPrereqs(T) = {B} /\ SetDone(B) =>
              T \notin BlockedNow' /\ T \in ReadyNow']_vars

(* C4, amended: when T is open and B is its only unfinished                 *)
(* blocks-prerequisite, right after B is set to done by update or close     *)
(* blocked() does not contain T, and ready() contains T when T is still     *)
(* open after the operation and has no defer_until; a T that the close's    *)
(* rollup has marked done is not in ready().                                *)
Thm_C4_UnblockedIsReady ==
    [][\A T, B \in DOMAIN tasks :
          tasks[T].status = "open" /\ UnfinishedPrereqs(T) = {B} /\ SetDone(B) =>
              /\ T \notin BlockedNow'
              /\ tasks'[T].status = "open" /\ tasks[T].defer_until = NoTime => T \in ReadyNow'
              /\ tasks'[T].status # "open" => T \notin ReadyNow']_vars

\* the close of B that went through left T, which has a blocks-edge to B and
\* to no other task, open, ready and not blocked
Wit_C4_ReadyAfterClose ==
    \E T, B \in DOMAIN tasks :
        /\ T # B
        /\ result.op = "close" /\ result.task_id = B /\ result.ok
        /\ tasks[B].status = "done"
        /\ {d \in DepRows(deps) : d.task_id = T} = {Edge(T, B, "blocks")}
        /\ tasks[T].status = "open"
        /\ T \in ReadyNow
        /\ T \notin BlockedNow

----------------------------------------------------------------------------
(* C6: after update_parent_status(c), where c has parent P: if every direct *)
(* child of P is done or cancelled then P is done, whatever P was before;   *)
(* if some child of P is neither, the rollup does not set P to done.        *)
Thm_C6_RollupDoneRule ==
    [][\A c \in TreeIds : RollupOn(c) =>
          LET P == tasks[c].parent_id
          IN  IF \A k \in ChildrenOf(P) : tasks'[k].status \in {"done", "cancelled"}
              THEN tasks'[P].status = "done"
              ELSE tasks'[P].status = "done" => tasks[P].status = "done"]_vars

\* a rollup has left a parent done whose children are all cancelled
Wit_C6_AllCancelledParentDone ==
    \E c \in TreeIds :
        /\ RolledUp(c)
        /\ \A k \in ChildrenOf(tasks[c].parent_id) : tasks[k].status = "cancelled"
        /\ tasks[tasks[c].parent_id].status = "done"

IdsIn(seq, S) == SelectSeq(seq, LAMBDA x : x \in S)

RowIds(hks) == [i \in DOMAIN hks |-> hks[i].id]

ResultIds(rs) == [i \in DOMAIN rs |-> rs[i].hook_id]

\* the hooks whose command the last operation spawned, in order
SpawnedIds == [i \in DOMAIN spawned |-> spawned[i].hook_id]

\* the enabled hooks configured for an event, in table order
DueHooks(event) == RowIds(SelectSeq(hooks, LAMBDA h : h.enabled /\ h.event = event))

(* C10: run_hooks(event) spawns every enabled hook configured for the event *)
(* exactly once and returns exactly one result for each, in the configured  *)
(* order, whatever the earlier hooks did.                                   *)
Thm_C10_AllHooksRun ==
    result.op = "run_hooks" =>
        LET due == DueHooks(result.event)
        IN  /\ IdsIn(ResultIds(result.hook_results), Range(due)) = due
            /\ IdsIn(SpawnedIds, Range(due)) = due

\* a pipeline run returned a result for a hook that ran after a failed,
\* a timed-out or an unspawnable one
Wit_C10_RanAfterFailure ==
    /\ result.op = "run_hooks"
    /\ Len(result.hook_results) >= 2
    /\ result.hook_results[1].return_code = -1
    /\ Len(spawned) = Len(result.hook_results)

(* C11: a hook execution never raises: its result reports success exactly   *)
(* when the command exited with code 0; a timeout gives a failed result     *)
(* with return code -1 and the timed-out message; a failure to spawn gives  *)
(* a failed result with return code -1; run_hooks returns one result per    *)
(* command it started.                                                      *)
Orig_C11_SuccessIffExitZero ==
    result.op = "run_hooks" =>
        /\ Len(result.hook_results) = Len(spawned)
        /\ \A i \in DOMAIN spawned :
              LET r == result.hook_results[i]
                  did == spawned[i].did
              IN  /\ r.success <=> did \in ExitedZero
                  /\ did = "timeout" =>
                        ~ r.success /\ r.return_code = -1 /\ r.stderr = "timed out"
                  /\ did = "error" => ~ r.success /\ r.return_code = -1

\* the hooks of the table that are switched on
EnabledIds == {hooks[j].id : j \in {k \in DOMAIN hooks : hooks[k].enabled}}

(* C12: a disabled hook is never executed: whatever the last operation was  *)
(* (run_hooks for an event or for none, close, validate), every command it  *)
(* spawned and every result it reports belongs to a hook that is enabled,   *)
(* and a rejected close of an existing task reports a failed result of an   *)
(* enabled hook.                                                            *)
Thm_C12_DisabledNeverRuns ==
    /\ \A i \in DOMAIN spawned : spawned[i].hook_id \in EnabledIds
    /\ \A i \in DOMAIN result.hook_results : result.hook_results[i].hook_id \in EnabledIds
    /\ result.op = "close" /\ ~ result.ok /\ result.task_id \in DOMAIN tasks =>
          \E i \in DOMAIN result.hook_results :
              /\ ~ result.hook_results[i].success
              /\ result.hook_results[i].hook_id \in EnabledIds

\* a close went through, running an enabled pre-close hook, while another
\* pre-close hook was disabled
Wit_C12_ClosedPastDisabledHook ==
    /\ result.op = "close" /\ result.ok
    /\ result.hook_results # <<>>
    /\ \E j \in DOMAIN hooks : hooks[j].event = "pre-close" /\ ~ hooks[j].enabled

\* the ids of the enabled pre-close hooks, in table order
PreCloseIds == DueHooks("pre-close")

\* the step is a decomposition of P, by the command or by decompose_task,
\* that went through
Decomposed(P) ==
    /\ result'.op \in {"decompose_task", "decompose"}
    /\ result'.ok
    /\ result'.task_id = P

\* the i-th point value of the request of the step, if there is one
RequestedPoint(i) ==
    LET l == result'.points.list
    IN  IF result'.points.given /\ i <= Len(l)
        THEN IF result'.op = "decompose" THEN ParseInt(l[i]) ELSE l[i]
        ELSE NoPoints

(* C14: decomposing an existing task P with N titles creates exactly N new  *)
(* tasks, in title order, each open, with parent P and P's priority, the    *)
(* i-th with the i-th point value when there is one and none otherwise; P   *)
(* is then an epic, its status, priority and parent are as before, and no   *)
(* other task, edge or hook has changed.                                    *)
Thm_C14_DecomposeCreatesChildren ==
    [][\A P \in DOMAIN tasks :
          Decomposed(P) =>
              LET subs == result'.subtasks
                  titles == result'.titles
              IN  /\ Len(subs) = Len(titles)
                  /\ NoDuplicates(subs)
                  /\ Range(subs) \cap DOMAIN tasks = {}
                  /\ DOMAIN tasks' = DOMAIN tasks \cup Range(subs)
                  /\ \A i \in DOMAIN subs :
                        LET c == tasks'[subs[i]]
                        IN  /\ c.status = "open"
                            /\ c.parent_id = P
                            /\ c.priority = tasks[P].priority
                            /\ c.title = titles[i]
                            /\ c.story_points = RequestedPoint(i)
                  /\ tasks'[P].task_type = "epic"
                  /\ tasks'[P].status = tasks[P].status
                  /\ tasks'[P].priority = tasks[P].priority
                  /\ tasks'[P].parent_id = tasks[P].parent_id
                  /\ \A t \in DOMAIN tasks \ {P} : tasks'[t] = tasks[t]
                  /\ deps' = deps /\ hooks' = hooks]_vars

\* a finished task of priority 1 was decomposed into two subtasks with a
\* point list of length one: the first child has the points, the second none
Wit_C14_TwoChildrenOnePoint ==
    /\ result.op = "decompose_task" /\ result.ok
    /\ Len(result.subtasks) = 2
    /\ result.points = GivenList(<<3>>)
    /\ tasks[result.task_id].priority = 1
    /\ tasks[result.task_id].status = "done"
    /\ tasks[result.task_id].task_type = "epic"
    /\ tasks[result.subtasks[1]].story_points = 3
    /\ tasks[result.subtasks[2]].story_points = NoPoints
    /\ tasks[result.subtasks[2]].priority = 1

(* C15: a decomposition given a points list whose length differs from the   *)
(* number of titles is rejected: no child is created and the parent is      *)
(* unchanged.                                                               *)
Orig_C15_MismatchRejected ==
    [][(/\ result'.op \in {"decompose_task", "decompose"}
        /\ result'.points.given
        /\ result'.points.list # <<>>
        /\ Len(result'.points.list) # Len(result'.titles)) =>
            ~ result'.ok /\ tasks' = tasks]_vars

\* the step is a validation, by the command or by validate_task, of task id
ValidationOf(id) ==
    /\ result'.op \in {"validate", "validate_task"}
    /\ result'.task_id = id

\* score is the fraction of the results that are successes
IsPassRate(score, hook_results) ==
    /\ score # NoScore
    /\ score[2] > 0
    /\ score[1] * Len(hook_results) =
          score[2] * Cardinality({i \in DOMAIN hook_results : hook_results[i].success})

(* C13: a validation of an existing task runs the enabled pre-close hooks,  *)
(* leaves the status alone and, when at least one hook ran, stores          *)
(* successes / hooks run as the quality_score of the task; with no hook it  *)
(* reports valid and stores nothing.  No other operation changes a          *)
(* quality_score, and every score is unset or within [0, 1].                *)
Orig_C13_ValidationStoresScore ==
    [][\A id \in DOMAIN tasks :
          /\ ValidationOf(id) =>
                /\ ResultIds(result'.hook_results) = PreCloseIds
                /\ tasks'[id].status = tasks[id].status
                /\ IF result'.hook_results # <<>>
                   THEN IsPassRate(tasks'[id].quality_score, result'.hook_results)
                   ELSE result'.ok /\ tasks' = tasks
          /\ ~ ValidationOf(id) /\ id \in DOMAIN tasks' =>
                tasks'[id].quality_score = tasks[id].quality_score
          /\ LET q == tasks'[id].quality_score
             IN  id \in DOMAIN tasks' /\ q # NoScore => 0 <= q[1] /\ q[1] <= q[2]]_vars

(* C5: a close during which an enabled pre-close hook fails is rejected:    *)
(* its report is an error carrying one result per enabled pre-close hook,   *)
(* and tasks (status, description, every ancestor), dependencies and hooks  *)
(* are what they were before the close.                                     *)
Thm_C5_FailedHookRejectsClose ==
    [][(result'.op = "close" /\ \E i \in DOMAIN result'.hook_results :
                                    ~ result'.hook_results[i].success) =>
          /\ result'.ok = FALSE
          /\ ResultIds(result'.hook_results) = PreCloseIds
          /\ tasks' = tasks
          /\ deps' = deps
          /\ hooks' = hooks]_vars

\* a close of an unfinished child of an unfinished parent was rejected with
\* one passed and one failed hook in its report
Wit_C5_RejectedClose ==
    /\ result.op = "close"
    /\ ~ result.ok
    /\ \E i, j \in DOMAIN result.hook_results :
          result.hook_results[i].success /\ ~ result.hook_results[j].success
    /\ result.task_id \in DOMAIN tasks
    /\ tasks[result.task_id].status \notin {"done", "cancelled"}
    /\ tasks[result.task_id].parent_id \in DOMAIN tasks
    /\ tasks[tasks[result.task_id].parent_id].status \notin {"done", "cancelled"}

(* C9: every update, close or reopen that changes the status of a task with *)
(* a parent runs the rollup on it: once the command has completed, running  *)
(* update_parent_status on the task again would change nothing.             *)
Orig_C9_StatusChangeRollsUp ==
    [][\A t \in DOMAIN tasks :
          /\ result'.op \in {"update", "close", "reopen"}
          /\ result'.task_id = t
          /\ tasks'[t].status # tasks[t].status
          /\ tasks[t].parent_id \in DOMAIN tasks
          => update_parent_status(tasks', t) = tasks']_vars

\* the edge the last dependency call was asked for
Requested == Edge(result'.task_id, result'.depends_on_id, result'.dep_type)

\* no row of the table dps has a task depend on itself
NoSelfEdge(dps) == \A d \in DepRows(dps) : d.task_id # d.depends_on_id

(* C16: a request to add an edge from a task to itself fails and leaves the  *)
(* edge set unchanged, through the command and through the store, so that   *)
(* no state holds a self-edge.                                              *)
Orig_C16_SelfEdgeRejected ==
    [][/\ (/\ result'.op \in {"dep add", "add_dependency"}
           /\ result'.task_id = result'.depends_on_id) =>
               ~ result'.ok /\ deps' = deps
       /\ NoSelfEdge(deps')]_vars

(* C16, amended: the dep add command rejects an edge from a task to itself   *)
(* and leaves the edge set unchanged, and no dep add step puts a self-edge   *)
(* into the table; Storage.add_dependency applies no such test.             *)
Thm_C16_CommandRejectsSelfEdge ==
    [][result'.op = "dep add" =>
          /\ result'.task_id = result'.depends_on_id =>
                ~ result'.ok /\ deps' = deps
          /\ \A d \in DepRows(deps') \ DepRows(deps) : d.task_id # d.depends_on_id]_vars

\* the command has just refused to make an existing task depend on itself,
\* in a store that holds another edge
Wit_C16_SelfEdgeRefused ==
    /\ result.op = "dep add"
    /\ result.task_id = result.depends_on_id
    /\ Exists(tasks, result.task_id)
    /\ ~ result.ok
    /\ deps # EmptyBag
    /\ NoSelfEdge(deps)

(* C17: no (task_id, depends_on_id, dep_type) triple is stored twice.  An    *)
(* add_dependency call for a triple that is stored raises and leaves the    *)
(* table unchanged; a call for any other triple, the same pair with another *)
(* type included, returns and adds exactly that row.  The command reports   *)
(* an error for a stored triple and leaves the table unchanged.             *)
Thm_C17_TripleUnique ==
    [][/\ \A d \in DepRows(deps') : CopiesIn(d, deps') = 1
       /\ result'.op = "add_dependency" =>
             IF BagIn(Requested, deps)
             THEN ~ result'.ok /\ deps' = deps
             ELSE result'.ok /\ deps' = deps (+) SetToBag({Requested})
       /\ (result'.op = "dep add" /\ BagIn(Requested, deps)) =>
             ~ result'.ok /\ deps' = deps]_vars

\* a second add_dependency of a stored triple has just raised, in a table
\* that holds the same pair with both types
Wit_C17_DuplicateRefused ==
    /\ result.op = "add_dependency"
    /\ ~ result.ok
    /\ BagIn(Edge(result.task_id, result.depends_on_id, "blocks"), deps)
    /\ BagIn(Edge(result.task_id, result.depends_on_id, "related"), deps)

(* C18: delete_task(t) on a stored task returns true and removes t and every *)
(* edge that names t on either side, of every type, and nothing else; on an *)
(* id that is not stored it returns false and changes nothing.  A task      *)
(* whose only unfinished prerequisite is deleted is ready afterwards.       *)
Orig_C18_DeleteTaskAndItsEdges ==
    [][result'.op = "delete_task" =>
          LET t == result'.task_id IN
          IF Exists(tasks, t)
          THEN /\ result'.ok
               /\ tasks' = [i \in DOMAIN tasks \ {t} |-> tasks[i]]
               /\ deps' = DeleteRows(deps, {d \in DepRows(deps) : d.task_id = t \/ d.depends_on_id = t})
               /\ \A T \in DOMAIN tasks \ {t} :
                     (/\ tasks[T].status = "open"
                      /\ tasks[T].defer_until = NoTime
                      /\ UnfinishedPrereqs(T) = {t}) => T \in ReadyNow'
          ELSE /\ ~ result'.ok
               /\ tasks' = tasks
               /\ deps' = deps]_vars

\* the rows of type blocks of the table dps
BlocksRows(dps) == {d \in DepRows(dps) : d.dep_type = "blocks"}

\* what ready() and blocked() return, in order
ReadyList == get_ready_tasks(tasks, DepRows(deps), now, Cardinality(DOMAIN tasks))
BlockedList == get_blocked_tasks(tasks, DepRows(deps))

(* C19: a step that adds or removes edges of type parent, related or        *)
(* discovered only, and touches no task, changes neither ready() nor        *)
(* blocked(), whatever the statuses of the edges' endpoints.                *)
Thm_C19_OnlyBlocksEdgesCount ==
    [][(/\ tasks' = tasks
        /\ now' = now
        /\ BlocksRows(deps') = BlocksRows(deps)) =>
            /\ ReadyList' = ReadyList
            /\ BlockedList' = BlockedList]_vars

\* an open task is ready and nothing is blocked, although the task has a
\* parent edge and a discovered edge to another task that is in progress
Wit_C19_ReadyDespiteOtherEdges ==
    \E T, B \in DOMAIN tasks :
        /\ T # B
        /\ tasks[B].status = "in_progress"
        /\ BagIn(Edge(T, B, "parent"), deps)
        /\ BagIn(Edge(T, B, "discovered"), deps)
        /\ T \in ReadyNow
        /\ BlockedNow = {}

\* the columns of a task row
TaskFields == DOMAIN NewTask(NULL, DefaultPriority, NoTime, 0)

(* C20: update_task(id, ...) on a stored task returns the task and sets      *)
(* exactly the fields it was given; apart from updated_at every other field *)
(* of the task, every other task, every dependency row and every hook is    *)
(* unchanged.  On an id that is not stored it returns nothing and changes   *)
(* nothing.                                                                 *)
Thm_C20_UpdateIsAPatch ==
    [][result'.op = "update_task" =>
          LET id == result'.task_id
              patch == PatchOf(result'.kwargs)
          IN  /\ deps' = deps
              /\ hooks' = hooks
              /\ IF Exists(tasks, id)
                 THEN /\ result'.ok
                      /\ DOMAIN tasks' = DOMAIN tasks
                      /\ \A f \in DOMAIN patch : tasks'[id][f] = patch[f]
                      /\ \A f \in TaskFields \ (DOMAIN patch \cup {"updated_at"}) :
                            tasks'[id][f] = tasks[id][f]
                      /\ \A j \in DOMAIN tasks \ {id} : tasks'[j] = tasks[j]
                 ELSE /\ ~ result'.ok
                      /\ tasks' = tasks]_vars

\* a task has just been given a title and a priority, later than it and a
\* second task were created: its status is as created, the other task, the
\* edge and the hook are there
Wit_C20_TwoFieldsPatched ==
    /\ result.op = "update_task"
    /\ result.ok
    /\ DOMAIN PatchOf(result.kwargs) = {"title", "priority"}
    /\ LET id == result.task_id
       IN  /\ tasks[id].title = 1 /\ tasks[id].priority = 1
           /\ tasks[id].status = "open"
           /\ tasks[id].updated_at > tasks[id].created_at
           /\ \E j \in DOMAIN tasks \ {id} :
                 tasks[j] = NewTask(NULL, DefaultPriority, NoTime, tasks[j].created_at)
    /\ deps # EmptyBag
    /\ hooks # <<>>

(* C21: every update_task call that returns the task sets its updated_at to *)
(* the clock, whichever fields were given, none included; no updated_at     *)
(* ever decreases or lies before the created_at of its task.                *)
Orig_C21_UpdateRefreshesTimestamp ==
    [][/\ (result'.op = "update_task" /\ result'.ok /\ now' = now) =>
              tasks'[result'.task_id].updated_at = now'
       /\ \A i \in DOMAIN tasks' : tasks'[i].updated_at >= tasks'[i].created_at
       /\ \A i \in DOMAIN tasks \cap DOMAIN tasks' :
              tasks'[i].updated_at >= tasks[i].updated_at]_vars

\* seq lists task ids by priority ascending, then created_at ascending
SortedRows(seq) ==
    \A i, j \in DOMAIN seq :
        i < j => \/ tasks[seq[i]].priority < tasks[seq[j]].priority
                 \/ /\ tasks[seq[i]].priority = tasks[seq[j]].priority
                    /\ tasks[seq[i]].created_at <= tasks[seq[j]].created_at

\* the first min(n, size) elements of seq
FirstRows(seq, n) == SubSeq(seq, 1, IF n < Len(seq) THEN n ELSE Len(seq))

\* the task row satisfies every filter that was given; a labels filter asks
\* for at least one of its labels
Satisfies(row, filters) ==
    /\ filters.status # None => row.status = filters.status[1]
    /\ filters.priority # None => row.priority = filters.priority[1]
    /\ filters.labels # None => Range(filters.labels[1]) \cap Range(row.labels) # {}

(* C22: list_tasks and get_ready_tasks return tasks by priority ascending,  *)
(* then creation time ascending; with a limit n >= 0 they return the first  *)
(* min(n, size) elements of the same call without a limit; and list_tasks   *)
(* without a limit returns, once each, exactly the tasks that satisfy every *)
(* filter given.                                                            *)
Orig_C22_ListSortedLimitedFiltered ==
    [][/\ result'.op \in {"list_tasks", "get_ready_tasks"} =>
              SortedRows(result'.rows)
       /\ (result'.op = "list_tasks" /\ result'.limit # None /\ result'.limit[1] >= 0) =>
              result'.rows = FirstRows(list_tasks(tasks, result'.filters, None),
                                       result'.limit[1])
       /\ (result'.op = "get_ready_tasks" /\ result'.limit[1] >= 0) =>
              result'.rows = FirstRows(ReadyList, result'.limit[1])
       /\ (result'.op = "list_tasks" /\ result'.limit = None) =>
              /\ NoDuplicates(result'.rows)
              /\ Range(result'.rows) =
                    {i \in DOMAIN tasks : Satisfies(tasks[i], result'.filters)}]_vars

\* the children of P whose status is st
ChildrenIn(P, st) == {c \in ChildrenOf(P) : tasks[c].status = st}

\* the sum of the counts a progress dictionary reports
RECURSIVE SumCounts(_, _)
SumCounts(counts, keys) ==
    IF keys = {} THEN 0
    ELSE LET k == CHOOSE x \in keys : TRUE
         IN  counts[k] + SumCounts(counts, keys \ {k})

\* the children of P that carry an estimate
Estimated(P) == {c \in ChildrenOf(P) : tasks[c].story_points # NoPoints}

(* C23: for a stored P, get_subtask_progress reports total = the number of  *)
(* direct children, per-status counts that sum to total, percent done =     *)
(* 100 * done / (total - cancelled), or 0 when total = cancelled, the sum   *)
(* of the children's estimates as total_points and the sum over the done    *)
(* children as completed_points; 0 <= percent <= 100 and completed_points   *)
(* <= total_points.                                                         *)
Orig_C23_ProgressExact ==
    (result.op = "get_subtask_progress" /\ result.ok) =>
        LET P == result.task_id
            g == result.progress
            done == Cardinality(ChildrenIn(P, "done"))
            countable == Cardinality(ChildrenOf(P)) - Cardinality(ChildrenIn(P, "cancelled"))
        IN  /\ g.total = Cardinality(ChildrenOf(P))
            /\ \A st \in DOMAIN g.counts : g.counts[st] = Cardinality(ChildrenIn(P, st))
            /\ SumCounts(g.counts, DOMAIN g.counts) = g.total
            /\ IF countable = 0 THEN g.progress_tenths = 0
               ELSE g.progress_tenths * countable = 1000 * done
            /\ g.progress_tenths >= 0 /\ g.progress_tenths <= 1000
            /\ g.total_points = SumPoints(tasks, Estimated(P))
            /\ g.completed_points = SumPoints(tasks, Estimated(P) \cap ChildrenIn(P, "done"))
            /\ g.completed_points <= g.total_points

(* C23, amended: total is the number of direct children; each per-status    *)
(* count is the number of children in that status, so the counts sum to     *)
(* total less the children whose status is none of the six; percent done is *)
(* 100 * done / (total - cancelled) rounded to one decimal, or 0 when total *)
(* = cancelled, and lies in [0, 100]; total_points and completed_points are *)
(* the sums over the estimated children and over the done ones among them,  *)
(* and completed_points <= total_points when no estimate is negative.       *)
Thm_C23_ProgressRounded ==
    (result.op = "get_subtask_progress" /\ result.ok) =>
        LET P == result.task_id
            g == result.progress
            done == Cardinality(ChildrenIn(P, "done"))
            countable == Cardinality(ChildrenOf(P)) - Cardinality(ChildrenIn(P, "cancelled"))
            strays == {c \in ChildrenOf(P) : tasks[c].status \notin TaskStatus}
            off == g.progress_tenths * countable - 1000 * done
        IN  /\ g.total = Cardinality(ChildrenOf(P))
            /\ \A st \in DOMAIN g.counts : g.counts[st] = Cardinality(ChildrenIn(P, st))
            /\ SumCounts(g.counts, DOMAIN g.counts) = g.total - Cardinality(strays)
            /\ IF countable = 0 THEN g.progress_tenths = 0
               ELSE 2 * off <= countable /\ 2 * off >= 0 - countable
            /\ g.progress_tenths >= 0 /\ g.progress_tenths <= 1000
            /\ g.total_points = SumPoints(tasks, Estimated(P))
            /\ g.completed_points = SumPoints(tasks, Estimated(P) \cap ChildrenIn(P, "done"))
            /\ (\A c \in Estimated(P) : tasks[c].story_points >= 0) =>
                   g.completed_points <= g.total_points

\* progress of a parent with three children: one with 3 points is done, one
\* with 3 points and one without an estimate are open
Wit_C23_OneOfThreeDone ==
    /\ result.op = "get_subtask_progress"
    /\ result.ok
    /\ result.progress.total = 3
    /\ result.progress.counts["done"] = 1
    /\ result.progress.counts["open"] = 2
    /\ result.progress.progress_tenths = 333
    /\ result.progress.total_points = 6
    /\ result.progress.completed_points = 3
    /\ Cardinality(Estimated(result.task_id)) = 2


----------------------------------------------------------------------------
(* Commands on task ids that do not resolve *)

\* the step is a command that looks up an id the store does not hold; for
\* dep add, either endpoint
MissingIdStep ==
    /\ result'.op \in IdCommands
    /\ \/ result'.task_id \notin DOMAIN tasks
       \/ result'.op = "dep add" /\ result'.depends_on_id \notin DOMAIN tasks

\* the step writes nothing and runs no hook
NothingWritten ==
    /\ tasks' = tasks
    /\ deps' = deps
    /\ hooks' = hooks
    /\ nextHookId' = nextHookId
    /\ spawned' = <<>>

\* the step's report is the error of the given kind
FailsWith(error) ==
    /\ ~ result'.ok
    /\ "error" \in DOMAIN result'
    /\ result'.error = error

\* decompose was given a --points option it rejects before it looks at the store
PointsRejected ==
    /\ result'.op = "decompose"
    /\ result'.points.given
    /\ result'.points.list # <<>>
    /\ \/ \E i \in DOMAIN result'.points.list : ParseInt(result'.points.list[i]) = NotAnInt
       \/ Len(result'.points.list) # Len(result'.titles)

(* C24: every command given a task id that does not resolve (show, update,  *)
(* close, reopen, dep add with either endpoint missing, dep list,           *)
(* decompose, tree, validate) returns a not-found error and leaves tasks,   *)
(* edges and hooks unchanged; no hook is run and no child is created.       *)
Orig_C24_MissingIdNotFound ==
    [][MissingIdStep => FailsWith(NotFound) /\ NothingWritten]_vars

(* C24, amended: such a command fails and leaves tasks, edges and hooks     *)
(* unchanged, runs no hook and creates no child; its error is the not-found *)
(* error, except that decompose reports the fault of its --points option    *)
(* (not numbers, or not as many as titles) when there is one.               *)
Thm_C24_MissingIdRejected ==
    [][MissingIdStep =>
          /\ NothingWritten
          /\ IF PointsRejected
             THEN \/ FailsWith("Invalid points format")
                  \/ FailsWith("Number of points must match number of subtasks")
             ELSE FailsWith(NotFound)]_vars

\* close was refused for an id that is not stored, in a store that holds a
\* task and an enabled pre-close hook
Wit_C24_CloseOfMissingTask ==
    /\ result.op = "close"
    /\ result.task_id \notin DOMAIN tasks
    /\ "error" \in DOMAIN result
    /\ result.error = NotFound
    /\ tasks # <<>>
    /\ \E i \in DOMAIN hooks : hooks[i].event = "pre-close" /\ hooks[i].enabled


----------------------------------------------------------------------------
(* reopen *)

(* C25: reopen succeeds only on a stored task whose status is done or       *)
(* cancelled, and then sets that task's status to open; on a task in any    *)
(* other status it returns an error and the task's status is unchanged.     *)
Thm_C25_ReopenOnlyFinished ==
    [][result'.op = "reopen" =>
          LET id == result'.task_id
          IN  /\ result'.ok <=> (id \in DOMAIN tasks /\ tasks[id].status \in {"done", "cancelled"})
              /\ result'.ok =>
                    /\ DOMAIN tasks' = DOMAIN tasks
                    /\ tasks'[id].status = "open"
                    /\ \A f \in TaskFields \ {"status", "updated_at"} : tasks'[id][f] = tasks[id][f]
                    /\ \A k \in DOMAIN tasks \ {id} : tasks'[k] = tasks[k]
              /\ ~ result'.ok => tasks' = tasks /\ "error" \in DOMAIN result'
              /\ deps' = deps /\ hooks' = hooks]_vars

\* a reopen has succeeded and its task is open
Wit_C25_Reopened ==
    /\ result.op = "reopen"
    /\ result.ok
    /\ tasks[result.task_id].status = "open"


----------------------------------------------------------------------------
(* The status column *)

(* C26: in every reachable state the status of every stored task is one of   *)
(* open, in_progress, blocked, review, done, cancelled.                     *)
Orig_C26_StatusIsOneOfSix ==
    \A id \in DOMAIN tasks : tasks[id].status \in TaskStatus


----------------------------------------------------------------------------
(* Parent links *)

(* C27: in every state reachable through create, decompose, update and       *)
(* delete, every task whose parent_id is set has a parent_id that resolves  *)
(* to a stored task.                                                        *)
Orig_C27_ParentResolves ==
    \A id \in DOMAIN tasks :
        tasks[id].parent_id # NULL => tasks[id].parent_id \in DOMAIN tasks


----------------------------------------------------------------------------
(* Cycles of blocks edges *)

\* the blocks edges as pairs <<dependent, prerequisite>>
BlocksPairs == {<<d.task_id, d.depends_on_id>> : d \in BlocksRows(deps)}

\* the blocks edges between stored tasks that are neither done nor cancelled
LivePairs ==
    {e \in BlocksPairs :
        /\ e[1] \in DOMAIN tasks /\ tasks[e[1]].status \notin Finished
        /\ e[2] \in DOMAIN tasks /\ tasks[e[2]].status \notin Finished}

\* the tasks reached from frontier over the edges in E
RECURSIVE Upstream(_, _, _)
Upstream(E, seen, frontier) ==
    IF frontier \subseteq seen THEN seen
    ELSE Upstream(E, seen \cup frontier, {e[2] : e \in {x \in E : x[1] \in frontier}})

\* a waits for b over one or more edges of E
Reaches(E, a, b) == b \in Upstream(E, {}, {e[2] : e \in {x \in E : x[1] = a}})

\* T is on a cycle of blocks edges none of whose members is done or cancelled
OnLiveCycle(T) == Reaches(LivePairs, T, T)

\* the step asks for a new blocks edge between stored tasks that closes a
\* cycle: its prerequisite is, or already waits for, its dependent
ClosingStep ==
    /\ result'.op \in {"add_dependency", "dep add"}
    /\ result'.dep_type = "blocks"
    /\ result'.task_id \in DOMAIN tasks
    /\ result'.depends_on_id \in DOMAIN tasks
    /\ ~ BagIn(Requested, deps)
    /\ \/ result'.task_id = result'.depends_on_id
       \/ Reaches(BlocksPairs, result'.depends_on_id, result'.task_id)

\* no member of a live cycle is ready and every member is blocked
CycleMembersBlocked ==
    \A T \in DOMAIN tasks : OnLiveCycle(T) => T \notin ReadyNow /\ T \in BlockedNow

(* C28: edge creation never rejects an edge that closes a cycle of blocks    *)
(* edges; while a cycle exists among tasks none of which is done or         *)
(* cancelled, no member is in ready() and every member is in blocked(), in  *)
(* every state in which the cycle's edges and members are still there.      *)
Orig_C28_CyclesAccepted ==
    [][/\ ClosingStep => result'.ok /\ deps' = deps (+) SetToBag({Requested})
       /\ CycleMembersBlocked']_vars

(* C28, amended: an edge that closes a cycle of two or more tasks is never   *)
(* rejected, by the store or by the dep add command; an edge from a task to *)
(* itself is stored by add_dependency and rejected by dep add.  While a     *)
(* cycle exists among tasks none of which is done or cancelled, no member   *)
(* is in ready() and every member is in blocked().                          *)
Thm_C28_LongCyclesAccepted ==
    [][/\ ClosingStep =>
             IF result'.op = "dep add" /\ result'.task_id = result'.depends_on_id
             THEN ~ result'.ok /\ deps' = deps
             ELSE result'.ok /\ deps' = deps (+) SetToBag({Requested})
       /\ CycleMembersBlocked']_vars

\* two tasks wait for each other, one open and one in progress, after the
\* edge that closed the cycle was added
Wit_C28_TwoTasksDeadlocked ==
    /\ result.op \in {"add_dependency", "dep add"}
    /\ result.ok
    /\ result.task_id # result.depends_on_id
    /\ Reaches(LivePairs, result.task_id, result.depends_on_id)
    /\ Reaches(LivePairs, result.depends_on_id, result.task_id)
    /\ tasks[result.task_id].status = "open"
    /\ tasks[result.depends_on_id].status = "in_progress"
    /\ ReadyNow = {}
    /\ {result.task_id, result.depends_on_id} \subseteq BlockedNow


----------------------------------------------------------------------------
(* The rollup from a task to the root *)

\* the status the rollup rules give task A when the statuses are st
RuleAt(st, A) ==
    IF \A k \in ChildrenOf(A) : st[k] \in {"done", "cancelled"} THEN "done"
    ELSE IF (\E k \in ChildrenOf(A) : st[k] = "in_progress") /\ st[A] = "open"
    THEN "in_progress"
    ELSE st[A]

\* the statuses after the rules were applied to every ancestor of c in turn,
\* from its parent to the root, starting from the statuses st
RECURSIVE StatusesUp(_, _)
StatusesUp(st, c) ==
    IF c \in DOMAIN tasks /\ tasks[c].parent_id \in DOMAIN tasks
    THEN StatusesUp([st EXCEPT ![tasks[c].parent_id] = RuleAt(st, tasks[c].parent_id)],
                    tasks[c].parent_id)
    ELSE st

\* the status column of the tasks table
StatusOf(tsk) == [t \in DOMAIN tsk |-> tsk[t].status]

(* C29: update_parent_status(c) applies the rollup rules to every ancestor   *)
(* of c in order from parent to root, also above a level whose status it    *)
(* left unchanged: it makes one call for c and one for each ancestor.       *)
Thm_C29_RollupVisitsEveryAncestor ==
    [][\A c \in TreeIds : RollupOn(c) =>
          /\ result'.ok
          /\ result'.calls = Cardinality(AncestorsOf(c)) + 1
          /\ StatusOf(tasks') = StatusesUp(StatusOf(tasks), c)]_vars

\* a rollup on an in_progress task has left its grandparent done above a
\* parent that it did not write: the parent is still cancelled
Wit_C29_GrandparentAboveUnchangedParent ==
    \E c \in TreeIds :
        /\ RolledUp(c)
        /\ result.calls = 3
        /\ tasks[c].status = "in_progress"
        /\ tasks[tasks[c].parent_id].status = "cancelled"
        /\ tasks[tasks[c].parent_id].parent_id \in DOMAIN tasks
        /\ tasks[tasks[tasks[c].parent_id].parent_id].status = "done"


----------------------------------------------------------------------------
(* Termination of the rollup *)

(* C30: update_parent_status terminates from every reachable store state,    *)
(* stopping at a task that does not exist, has no parent, or whose parent   *)
(* does not resolve; it visits at most as many levels as there are tasks.   *)
Orig_C30_RollupTerminates ==
    [][result'.op = "update_parent_status" =>
          /\ result'.ok
          /\ result'.calls <= Cardinality(DOMAIN tasks) + 1]_vars


----------------------------------------------------------------------------
(* The writes of the rollup *)

(* C31: the rollup writes to a parent only when the parent's status changes: *)
(* a task whose status is the same after update_parent_status as before it  *)
(* was not updated, and its updated_at is not refreshed.                    *)
Orig_C31_RollupWritesOnlyChanges ==
    [][(result'.op = "update_parent_status" /\ now' = now) =>
          \A P \in DOMAIN tasks :
              tasks'[P].status = tasks[P].status => tasks'[P] = tasks[P]]_vars


----------------------------------------------------------------------------
(* Consistency of the hierarchy after each command *)

(* C32: after every completed command, no task is done while one of its *)
(* direct children has a status other than done or cancelled.           *)
Orig_C32_HierarchyConsistent ==
    \A P \in DOMAIN tasks :
        tasks[P].status = "done" =>
            \A c \in get_children(tasks, P) : tasks[c].status \in {"done", "cancelled"}


----------------------------------------------------------------------------
(* ready() and blocked() as a partition of the open tasks *)

\* T has no defer time, or one that has elapsed
NoPendingDefer(T) == tasks[T].defer_until = NoTime \/ tasks[T].defer_until < now

ReadyBlockedDisjoint == ReadyNow \cap BlockedNow = {}

FinishedInNeither ==
    \A T \in DOMAIN tasks :
        tasks[T].status \in {"done", "cancelled"} => T \notin ReadyNow \cup BlockedNow

\* the tasks that were never deferred are on exactly one of the two lists
UndeferredOpenInOne ==
    \A T \in DOMAIN tasks :
        (tasks[T].status = "open" /\ tasks[T].defer_until = NoTime) =>
            T \in ReadyNow \cup BlockedNow

(* C33: in every reachable state ready() without a limit and blocked() are *)
(* disjoint, every open task with no pending defer time is in exactly one  *)
(* of them, and the done and cancelled tasks are in neither.               *)
Orig_C33_ReadyBlockedPartition ==
    /\ ReadyBlockedDisjoint
    /\ FinishedInNeither
    /\ \A T \in DOMAIN tasks :
           (tasks[T].status = "open" /\ NoPendingDefer(T)) =>
               T \in ReadyNow \cup BlockedNow


----------------------------------------------------------------------------
(* The endpoints of the dependency edges *)

EdgesJoinTasks ==
    \A d \in DepRows(deps) : Exists(tasks, d.task_id) /\ Exists(tasks, d.depends_on_id)

(* C34: in every state reached through dep add, dep remove, create, update, *)
(* close and delete_task both endpoints of every dependency edge are tasks  *)
(* of the store: dep add with a missing endpoint is refused and stores      *)
(* nothing, and delete_task leaves no edge that names the deleted task.     *)
Thm_C34_EdgesJoinTasks ==
    /\ []EdgesJoinTasks
    /\ [][/\ (result'.op = "dep add" /\ (~ Exists(tasks, result'.task_id)
                                          \/ ~ Exists(tasks, result'.depends_on_id))) =>
                 (~ result'.ok /\ deps' = deps)
          /\ result'.op = "delete_task" =>
                 \A d \in DepRows(deps') :
                     d.task_id # result'.task_id /\ d.depends_on_id # result'.task_id]_vars

\* a dep add that names a missing blocker was refused beside a stored edge
Wit_C34_MissingBlockerRefused ==
    /\ result.op = "dep add"
    /\ result.depends_on_id = NoSuchTask
    /\ Exists(tasks, result.task_id)
    /\ ~ result.ok
    /\ deps # EmptyBag
    /\ EdgesJoinTasks


----------------------------------------------------------------------------
(* What remove_dependency deletes and what it keeps *)

RemoveStep == result'.op \in {"remove_dependency", "dep remove"}

\* d is an edge from the task to the blocker the step was asked to separate
FromTaskToBlocker(d) ==
    d.task_id = result'.task_id /\ d.depends_on_id = result'.depends_on_id

(* C35: remove_dependency(task, blocker) deletes the edges from task to     *)
(* blocker of every dependency type at once and keeps every other edge, the *)
(* edge from blocker to task among them, and every task; when there is no   *)
(* edge from task to blocker it reports failure and changes nothing.        *)
Thm_C35_RemoveExactlyTheEdges ==
    [][RemoveStep =>
          /\ DepRows(deps') = {d \in DepRows(deps) : ~ FromTaskToBlocker(d)}
          /\ \A d \in DepRows(deps') : CopiesIn(d, deps') = CopiesIn(d, deps)
          /\ tasks' = tasks
          /\ hooks' = hooks
          /\ result'.ok <=> (\E d \in DepRows(deps) : FromTaskToBlocker(d))
          /\ ~ result'.ok => deps' = deps]_vars

\* a remove succeeded and the edge in the other direction is still stored
Wit_C35_ReverseEdgeKept ==
    /\ result.op = "remove_dependency"
    /\ result.ok
    /\ result.task_id # result.depends_on_id
    /\ \E d \in DepRows(deps) :
           d.task_id = result.depends_on_id /\ d.depends_on_id = result.task_id
    /\ tasks # <<>>


----------------------------------------------------------------------------
(* The hooks run_hooks selects *)

(* C36: run_hooks(event) executes only hooks whose event is the requested   *)
(* event, the empty string included: a hook registered for another event is *)
(* not spawned and contributes no result.                                   *)
Orig_C36_OnlyHooksOfTheEvent ==
    [][result'.op = "run_hooks" =>
          /\ \A i \in DOMAIN result'.hook_results :
                 result'.hook_results[i].event = result'.event
          /\ \A i \in DOMAIN spawned' :
                 \A j \in DOMAIN hooks :
                     hooks[j].id = spawned'[i].hook_id => hooks[j].event = result'.event]_vars


----------------------------------------------------------------------------
(* What close does to a task and to its ancestors *)

\* the step is a close of the existing task T
CloseStepOn(T) ==
    /\ result'.op = "close"
    /\ result'.task_id = T
    /\ now' = now
    /\ T \in DOMAIN tasks

\* the row of T with status done and the reason, if one was given, appended
\* to the description
ClosedRow(T) ==
    [tasks[T] EXCEPT !.status = "done",
                     !.description = IF result'.reason # NoReason
                                     THEN Append(@, result'.reason) ELSE @]

\* the closed row with the time of the write
StampedRow(T) == [ClosedRow(T) EXCEPT !.updated_at = now]

\* close ran the enabled pre-close hooks and no other, went through exactly
\* when each of them exited with 0, then left row as the row of T, applied the
\* rollup rules to the ancestors of T with T done, and touched nothing else
CloseDoes(T, row) ==
    /\ SpawnedIds' = PreCloseIds
    /\ result'.ok <=> (\A i \in DOMAIN spawned' : spawned'[i].did = "exit0")
    /\ result'.ok =>
          /\ tasks'[T] = row
          /\ StatusOf(tasks') = StatusesUp([StatusOf(tasks) EXCEPT ![T] = "done"], T)
          /\ \A A \in AncestorsOf(T) :
                 [tasks'[A] EXCEPT !.status = tasks[A].status,
                                   !.updated_at = tasks[A].updated_at] = tasks[A]
          /\ \A k \in DOMAIN tasks \ ({T} \cup AncestorsOf(T)) : tasks'[k] = tasks[k]
    /\ ~ result'.ok => tasks' = tasks
    /\ DOMAIN tasks' = DOMAIN tasks
    /\ deps' = deps
    /\ hooks' = hooks

(* C37: close on an existing task succeeds exactly when every enabled       *)
(* pre-close hook succeeds, and then sets the status to done whatever it    *)
(* was and whatever blocks the task, appends the reason to the description  *)
(* only when one is given, changes no other field of the task, and runs the *)
(* rollup on the ancestors after the status write.                          *)
Orig_C37_CloseChangesStatusAndReasonOnly ==
    [][\A T \in TaskIds : CloseStepOn(T) => CloseDoes(T, ClosedRow(T))]_vars

(* C37, amended: as above, and close also sets updated_at of the task to    *)
(* the time of the write; every other field of the task is as before.       *)
Thm_C37_CloseWritesDoneReasonAndTime ==
    [][\A T \in TaskIds : CloseStepOn(T) => CloseDoes(T, StampedRow(T))]_vars

\* a task with an unfinished blocker was closed with a reason after its hook
\* passed, some time after it was created
Wit_C37_BlockedTaskClosedWithReason ==
    /\ result.op = "close"
    /\ result.ok
    /\ result.reason = "r"
    /\ result.hook_results # <<>>
    /\ result.task_id \in DOMAIN tasks
    /\ tasks[result.task_id].status = "done"
    /\ tasks[result.task_id].description = <<"r">>
    /\ tasks[result.task_id].updated_at = now
    /\ tasks[result.task_id].created_at < now
    /\ UnfinishedPrereqs(result.task_id) # {}

\* a close of a child has set its parent to done
Wit_C37_ParentRolledUp ==
    /\ result.op = "close"
    /\ result.ok
    /\ result.task_id \in DOMAIN tasks
    /\ tasks[result.task_id].parent_id \in DOMAIN tasks
    /\ tasks[tasks[result.task_id].parent_id].status = "done"
    /\ tasks[tasks[result.task_id].parent_id].updated_at > 0


----------------------------------------------------------------------------
(* Two closes at the same time *)

\* the close of T has completed successfully
Closed(T) == T \in DOMAIN closing /\ closing[T].pc = "closed"

(* C38: when two close commands on two sibling tasks run at the same time,  *)
(* their store calls interleaved in any order, then once both have          *)
(* completed successfully and every child of their parent is done or        *)
(* cancelled, the parent is done.                                           *)
Orig_C38_ConcurrentClosesFinishParent ==
    \A A, B \in DOMAIN tasks :
        (/\ A # B
         /\ Closed(A) /\ Closed(B)
         /\ tasks[A].parent_id = tasks[B].parent_id
         /\ tasks[A].parent_id \in DOMAIN tasks
         /\ \A c \in ChildrenOf(tasks[A].parent_id) :
                tasks[c].status \in {"done", "cancelled"})
        => tasks[tasks[A].parent_id].status = "done"

====
